---- MODULE Spec2Model ----
(***************************************************************************)
(* croc-pump-screener: the alert evaluation and dispatch loop              *)
(* (bot.py check_signals / process_exchange), the message handlers that    *)
(* change the settings it reads (bot.py cmd_start / cmd_activate /         *)
(* handle_menu), the entitlement and settings store (database.py) and the  *)
(* TTL cache of the two exchange gateways (binance-api.py, bybit-api.py).  *)
(*                                                                         *)
(* Two clocks are kept: `day` is datetime.utcnow() in whole UTC days (key  *)
(* expiry, daily quota), `now` is time.time() in seconds (cache TTL).      *)
(* The asyncio event loop is cooperative: a message handler runs only      *)
(* while the check_signals task is suspended at an await.                  *)
(***************************************************************************)
EXTENDS Integers, Sequences, FiniteSets, TLC

\* ------------------------------------------------------------------------
\* Bounds of the model
MaxDay == 1            \* UTC day boundaries explored
DaysPerMonth == 2      \* length of relativedelta(months=1) in model days
MaxMsgs == 2           \* inbound messages handled in one behaviour
MaxKeyMsgs == 3        \* the same, in the entitlement specification
MaxKeyDay == 2         \* UTC day boundaries in the entitlement specification
MaxTicks == 1          \* ticks of check_signals in one behaviour
MaxNow == 600          \* seconds of time.time() explored by the gateway
TimeStep == 150        \* seconds between two readings of time.time()
MaxCalls == 3          \* get_price_change calls made in one behaviour
MaxCallers == 7        \* get_klines callers per exchange in one behaviour
MaxMenuMsgs == 4       \* inbound messages in the menu specification
StartTime == 3600      \* time.time() when the process starts
TickStep == 1800       \* seconds between two readings of time.time()
MaxClock == 9000       \* seconds of time.time() explored by the updater
MaxUpdates == 4        \* update_symbol_list calls made in one behaviour
MaxChange == 3         \* largest fetched price change, in percent
MaxThreshold == 3      \* largest threshold of an identity, in percent
WaitStep == 5          \* seconds between two looks at a pending network call
MaxWait == 15          \* seconds a pending network call is followed

\* ------------------------------------------------------------------------
\* Program constants
CACHE_TTL == 300
SEMAPHORE == 5                 \* asyncio.Semaphore(5), one per gateway module
REFRESH_INTERVAL == 3600       \* update_symbol_list: "< 3600"
TopLimit == 30                 \* fetch_top_*_symbols(limit=30)
FreeTimeout == 5               \* free_metrics: aiohttp.ClientTimeout(total=5)
TickerTimeout == 10            \* fetch_top_*_symbols: timeout=10
DefaultSignalsPerDay == 5
DefaultPercentChange == 1
ADMIN_ACCESS_KEY == "ADMIN"

\* ------------------------------------------------------------------------
\* Values
Users == {1, 2}                       \* message.from_user.id
NoHandle == "-"                       \* from_user.username is None
Handles == {"alice", NoHandle}        \* from_user.username
NullName == "NULL"                    \* SQL NULL in a TEXT column
NullId == 0                           \* SQL NULL in user_id
NullDate == -1                        \* SQL NULL in a DATETIME column
KeyOrder == <<"K1", "K2">>            \* access_keys rows in id order
Keys == {KeyOrder[i] : i \in 1..Len(KeyOrder)}
UnknownKey == "K9"                    \* a key that was never loaded
Exchanges == {"Binance", "Bybit"}
Categories == {"pump", "dump"}

\* message.from_user.username or str(user_id)
UsernameOf(user_id, handle) ==
    IF handle = NoHandle THEN ToString(user_id) ELSE handle

VARIABLES
    user_settings,   \* table user_settings: rows in rowid order
    access_keys,     \* table access_keys: access_key -> row
    user_states,     \* bot.py user_states: user_id -> menu state
    day,             \* datetime.utcnow(), in UTC days
    msgs,            \* inbound messages handled so far
    ticks,           \* ticks of check_signals completed so far
    SYMBOLS,         \* bot.py SYMBOLS
    pc,              \* position of the check_signals task
    users,           \* check_signals: rows fetched for this tick
    idx,             \* check_signals: index of the current row in users
    loc,             \* check_signals: locals of the current identity
    pass,            \* which of the four process_exchange calls runs
    px,              \* process_exchange: its locals
    sent,            \* history: deliveries per identity and category today
    last,            \* history: the most recent send attempt
    unreachable,     \* history: identities found unreachable this cycle
    msg,             \* history: the most recent key message and its result
    now,             \* time.time(), in seconds
    PRICE_CACHE,     \* gateway: exchange -> (symbol, interval) -> entry
    calls,           \* gateway: the get_price_change calls, in call order
    sem,             \* gateway: exchange -> SEMAPHORE and its get_klines callers
    TOP_SYMBOLS_LAST_UPDATE,  \* bot.py TOP_SYMBOLS_LAST_UPDATE
    upd,             \* update_symbol_list: its position and locals
    shown,           \* history: the keyboard of the last answer to each identity
    cls,             \* one classification: its inputs and what it produced
    enr,             \* one symbol of process_exchange: its network calls
    signal           \* one format_signal call: its arguments and its lines

dbvars == <<user_settings, access_keys>>
loopvars == <<pc, users, idx, loc, pass, px, ticks>>
histvars == <<sent, last, unreachable>>
gwvars == <<now, PRICE_CACHE, calls>>
auxvars == <<sem, TOP_SYMBOLS_LAST_UPDATE, upd, shown, cls, enr, signal>>
idlevars == <<msg, gwvars, auxvars>>   \* what the dispatch loop never touches
vars == <<user_settings, access_keys, user_states, day, msgs, ticks, SYMBOLS,
          pc, users, idx, loc, pass, px, sent, last, unreachable, msg,
          now, PRICE_CACHE, calls, sem, TOP_SYMBOLS_LAST_UPDATE, upd, shown,
          cls, enr, signal>>

\* ------------------------------------------------------------------------
\* database.py

\* init_db: the columns of a user_settings row and their DEFAULTs.  The
\* per-category columns timeframe_pump, percent_change_pump,
\* signals_per_day_pump (and _dump) are not part of the schema.
NewSettingsRow(username, user_id, is_admin) ==
    [username |-> username, user_id |-> user_id,
     exchange_binance |-> 1, exchange_bybit |-> 1,
     type_pump |-> 1, type_dump |-> 1,
     percent_change |-> DefaultPercentChange,
     signals_per_day |-> DefaultSignalsPerDay,
     signals_enabled |-> 1, is_admin |-> is_admin,
     signals_sent_today_pump |-> 0, signals_sent_today_dump |-> 0]

SettingsColumns ==
    {"user_id", "exchange_binance", "exchange_bybit", "type_pump",
     "type_dump", "percent_change", "signals_per_day", "signals_enabled",
     "is_admin", "signals_sent_today_pump", "signals_sent_today_dump"}

\* add_key: a loaded, not yet activated key
NewKeyRow(duration_months) ==
    [duration_months |-> duration_months, username |-> NullName,
     user_id |-> NullId, activated_at |-> NullDate,
     expires_at |-> NullDate, is_active |-> 0]

HasUsername(table, username) ==
    \E i \in 1..Len(table) : table[i].username = username

\* INSERT INTO user_settings (username, user_id[, is_admin]) ...
\* ON CONFLICT(username) DO UPDATE SET user_id=?[, is_admin=1]
UpsertSettings(table, username, user_id, admin) ==
    IF HasUsername(table, username)
    THEN [i \in 1..Len(table) |->
            IF table[i].username = username
            THEN [table[i] EXCEPT !.user_id = user_id,
                                  !.is_admin = IF admin THEN 1 ELSE @]
            ELSE table[i]]
    ELSE Append(table, NewSettingsRow(username, user_id,
                                      IF admin THEN 1 ELSE 0))

\* activate_key: the value returned and the tables after the commit
activate_key(access_key, username, user_id) ==
    IF access_key = ADMIN_ACCESS_KEY
    THEN [ret |-> TRUE,
          us |-> UpsertSettings(user_settings, username, user_id, TRUE),
          ak |-> access_keys]
    ELSE IF access_key \notin DOMAIN access_keys
    THEN [ret |-> FALSE, us |-> user_settings, ak |-> access_keys]
    ELSE LET row == access_keys[access_key] IN
         IF row.is_active = 1
         THEN IF row.username = username
              THEN [ret |-> TRUE,
                    us |-> [i \in 1..Len(user_settings) |->
                              IF user_settings[i].username = username
                              THEN [user_settings[i] EXCEPT !.user_id = user_id]
                              ELSE user_settings[i]],
                    ak |-> [access_keys EXCEPT
                              ![access_key].user_id = user_id]]
              ELSE [ret |-> FALSE, us |-> user_settings, ak |-> access_keys]
         ELSE [ret |-> TRUE,
               us |-> UpsertSettings(user_settings, username, user_id, FALSE),
               ak |-> [access_keys EXCEPT ![access_key] =
                         [duration_months |-> row.duration_months,
                          username |-> username, user_id |-> user_id,
                          activated_at |-> day,
                          expires_at |-> day + row.duration_months * DaysPerMonth,
                          is_active |-> 1]]]

\* SELECT ... FROM user_settings WHERE user_id=? ; fetchone()
SettingsOf(table, user_id) ==
    SelectSeq(table, LAMBDA r : r.user_id = user_id)

\* get_user_settings: the first row of the identity, or {} (here <<>>)
get_user_settings(user_id) ==
    LET rows == SettingsOf(user_settings, user_id) IN
    IF rows = <<>> THEN <<>> ELSE <<rows[1]>>

\* SELECT expires_at FROM access_keys WHERE username=? AND is_active=1
ActiveKeysOf(ak, username) ==
    SelectSeq(KeyOrder,
              LAMBDA k : /\ k \in DOMAIN ak
                         /\ ak[k].username = username
                         /\ ak[k].is_active = 1)

\* check_subscription: the value returned and access_keys after it
check_subscription(user_id) ==
    LET rows == SettingsOf(user_settings, user_id) IN
    IF rows # <<>> /\ rows[1].is_admin = 1
    THEN [ret |-> TRUE, ak |-> access_keys]
    ELSE IF rows = <<>>
    THEN [ret |-> FALSE, ak |-> access_keys]
    ELSE LET username == rows[1].username
             active == ActiveKeysOf(access_keys, username) IN
         IF active = <<>>
         THEN [ret |-> FALSE, ak |-> access_keys]
         ELSE IF day >= access_keys[active[1]].expires_at
         THEN [ret |-> FALSE,
               ak |-> [k \in DOMAIN access_keys |->
                         IF access_keys[k].username = username
                         THEN [access_keys[k] EXCEPT !.is_active = 0]
                         ELSE access_keys[k]]]
         ELSE [ret |-> TRUE, ak |-> access_keys]

\* update_user_setting: UPDATE user_settings SET field=? WHERE user_id=?
\* (sqlite3.OperationalError for a column the table does not have is
\* raised by the callers' guards, see ColumnExists)
ColumnExists(field) == field \in SettingsColumns

update_user_setting(table, user_id, field, value) ==
    [i \in 1..Len(table) |->
        IF table[i].user_id = user_id
        THEN [table[i] EXCEPT ![field] = value]
        ELSE table[i]]

\* ------------------------------------------------------------------------
\* bot.py: message handlers

\* an entry of user_states; an absent key is FALSE / "none"
NoState == [awaiting_key |-> FALSE, menu |-> "none", setting |-> "none"]

timeframe_options == {"5m", "15m"}
price_options == {"2%"}
DigitTexts == {"7"}               \* texts for which text.isdigit() holds
ToggleField ==
    [t \in {"Pump ON/OFF", "Dump ON/OFF", "Binance ON/OFF",
            "Bybit ON/OFF", "Signals ON/OFF"} |->
       CASE t = "Pump ON/OFF" -> "type_pump"
         [] t = "Dump ON/OFF" -> "type_dump"
         [] t = "Binance ON/OFF" -> "exchange_binance"
         [] t = "Bybit ON/OFF" -> "exchange_bybit"
         [] t = "Signals ON/OFF" -> "signals_enabled"]
PromptSetting ==
    [t \in {"Timeframe", "Price change", "Signals per day"} |->
       CASE t = "Timeframe" -> "timeframe"
         [] t = "Price change" -> "percent_change"
         [] t = "Signals per day" -> "signals_per_day"]
MenuTokens ==
    {"Pump Alerts", "Dump Alerts", "Settings", "Type Alerts", "My Profile",
     "Logout", "Back"} \cup DOMAIN ToggleField \cup DOMAIN PromptSetting
KeyTexts == Keys \cup {ADMIN_ACCESS_KEY, UnknownKey}
ValueTexts == timeframe_options \cup price_options \cup DigitTexts
Texts == MenuTokens \cup KeyTexts \cup ValueTexts

\* the column a value prompt writes for the menu it was entered from
PromptField(setting, menu) ==
    IF menu = "pump" THEN setting \o "_pump" ELSE setting \o "_dump"

\* does the text match the pending prompt's options (bot.py 445, 459, 474)
AcceptsValue(setting, text) ==
    \/ setting = "timeframe" /\ text \in timeframe_options
    \/ setting = "percent_change" /\ text \in price_options
    \/ setting = "signals_per_day" /\ text \in DigitTexts

\* "Logout" (bot.py 625-654): the tables after the commit
LogoutTables(user_id) ==
    LET rows == SettingsOf(user_settings, user_id) IN
    IF rows = <<>>
    THEN [us |-> user_settings, ak |-> access_keys]
    ELSE [us |-> SelectSeq(user_settings, LAMBDA r : r.user_id # user_id),
          ak |-> IF rows[1].is_admin = 1
                 THEN access_keys
                 ELSE [k \in DOMAIN access_keys |->
                         IF access_keys[k].username = rows[1].username
                         THEN [access_keys[k] EXCEPT !.is_active = 0,
                                                     !.user_id = NullId]
                         ELSE access_keys[k]]]

\* an ON/OFF token: get_user_settings, then update_user_setting
ToggleTables(user_id, field) ==
    LET settings == get_user_settings(user_id)
        cur == IF settings = <<>> THEN 1 ELSE settings[1][field]
        new_val == IF cur = 1 THEN 0 ELSE 1 IN
    update_user_setting(user_settings, user_id, field, new_val)

\* "Back" outside a value prompt (bot.py 771-787)
BackState(state) ==
    IF state.menu = "type_alerts" THEN [NoState EXCEPT !.menu = "settings"]
    ELSE IF state.menu \in {"pump", "dump", "tier"} THEN NoState
    ELSE state

\* AfterSubmission that ends the activation flow whatever activate_key said
AfterSubmission_Pop(states, user_id, ret) ==
    [states EXCEPT ![user_id] = NoState]

\* handle_menu 421-440: user_states after a text handled in awaiting_key;
\* only the branch of a successful activation pops the entry
AfterSubmission(states, user_id, ret) ==
    IF ret THEN [states EXCEPT ![user_id] = NoState] ELSE states

\* handle_menu: every non-command text message
handle_menu(user_id, handle, text) ==
    LET username == UsernameOf(user_id, handle)
        state == user_states[user_id] IN
    IF state.awaiting_key
    THEN LET r == activate_key(text, username, user_id) IN
         /\ user_settings' = r.us
         /\ access_keys' = r.ak
         /\ user_states' = AfterSubmission(user_states, user_id, r.ret)
    ELSE IF state.setting # "none" /\ AcceptsValue(state.setting, text)
    THEN \* update_user_setting raises for a column that does not exist:
         \* the handler ends there, before state.pop("setting")
         IF ColumnExists(PromptField(state.setting, state.menu))
         THEN /\ user_settings' = update_user_setting(user_settings, user_id,
                                    PromptField(state.setting, state.menu), text)
              /\ user_states' = [user_states EXCEPT ![user_id].setting = "none"]
              /\ UNCHANGED access_keys
         ELSE UNCHANGED <<user_settings, access_keys, user_states>>
    ELSE IF state.setting # "none" /\ text = "Back"
    THEN /\ user_states' = [user_states EXCEPT ![user_id].setting = "none"]
         /\ UNCHANGED dbvars
    ELSE IF text \in {"Pump Alerts", "Dump Alerts", "Type Alerts"}
    THEN /\ user_states' = [user_states EXCEPT ![user_id] =
               [NoState EXCEPT !.menu =
                   CASE text = "Pump Alerts" -> "pump"
                     [] text = "Dump Alerts" -> "dump"
                     [] text = "Type Alerts" -> "type_alerts"]]
         /\ UNCHANGED dbvars
    ELSE IF text = "Logout"
    THEN LET t == LogoutTables(user_id) IN
         /\ user_settings' = t.us
         /\ access_keys' = t.ak
         /\ user_states' = [user_states EXCEPT ![user_id] = NoState]
    ELSE IF text \in DOMAIN PromptSetting
    THEN /\ user_states' = [user_states EXCEPT ![user_id] =
               [NoState EXCEPT
                  !.menu = IF state.menu = "none" THEN "pump" ELSE state.menu,
                  !.setting = PromptSetting[text]]]
         /\ UNCHANGED dbvars
    ELSE IF text \in DOMAIN ToggleField
    THEN /\ user_settings' = ToggleTables(user_id, ToggleField[text])
         /\ UNCHANGED <<access_keys, user_states>>
    ELSE IF text = "Back"
    THEN /\ user_states' = [user_states EXCEPT ![user_id] = BackState(state)]
         /\ UNCHANGED dbvars
    ELSE \* "Settings", "My Profile" and unmatched text change nothing
         UNCHANGED <<user_settings, access_keys, user_states>>

\* cmd_start: /start
cmd_start(user_id) ==
    LET r == check_subscription(user_id) IN
    /\ access_keys' = r.ak
    /\ user_states' = IF r.ret THEN user_states
                      ELSE [user_states EXCEPT ![user_id] =
                              [NoState EXCEPT !.awaiting_key = TRUE]]
    /\ UNCHANGED user_settings

\* cmd_activate: /activate <key>
cmd_activate(user_id, handle, access_key) ==
    LET r == activate_key(access_key, UsernameOf(user_id, handle), user_id) IN
    /\ user_settings' = r.us
    /\ access_keys' = r.ak
    /\ UNCHANGED user_states

\* ------------------------------------------------------------------------
\* bot.py: check_signals and process_exchange
\*
\* pc is the position of the one check_signals task.  At the positions in
\* Suspended the task waits at an await (network call or sleep) and the
\* event loop may run a message handler; the other positions are passed
\* without yielding.  A position in Crashed is the task ended by an
\* exception that nothing caught.

Suspended == {"update", "fetch", "enrich", "send", "sleep"}
Crashed == {"crashed_load", "crashed_user", "crashed_persist"}

Universes == {<<"BTCUSDT", "ETHUSDT">>}
PriceChanges == {-1, 0, 1}        \* data["price_change"], in percent
SendOutcomes == {"ok", "chat_not_found", "bad_request", "error"}

NoLoc == [user_id |-> NullId, signals_enabled |-> 0,
          signals_sent_pump |-> 0, signals_sent_dump |-> 0,
          signals_limit_pump |-> 0, signals_limit_dump |-> 0,
          threshold_pump |-> 0, threshold_dump |-> 0,
          pump_on |-> FALSE, dump_on |-> FALSE,
          binance_on |-> FALSE, bybit_on |-> FALSE]
NoPx == [symbols |-> <<>>, i |-> 0, signals_sent |-> 0, limit |-> 0,
         data |-> 0]
NoEntries == [k \in {} |-> 0]      \* PRICE_CACHE = {}
\* asyncio.Semaphore(5): its value, the callers waiting in acquire(), the
\* callers inside "async with SEMAPHORE", and the callers that entered
NewSemaphore == [value |-> SEMAPHORE, waiting |-> 0, inflight |-> 0,
                 entered |-> 0]
NoUpd == [pc |-> "idle", binance_top |-> <<>>, log |-> <<>>]
NoShown == [kb |-> "none", origin |-> "none"]
NoEnr == [exchange |-> "none", call |-> "idle", waited |-> 0, tried |-> {},
          abandoned |-> {},
          rsi |-> "unset", funding |-> "unset", long_short |-> "unset",
          open_interest |-> "unset", orderbook |-> "unset"]
\* None in an optional argument is the empty tuple, a float v is <<v>>
NoSignal == [symbol |-> "none", is_pump |-> FALSE, exchange |-> "none",
             rsi |-> <<>>, funding |-> <<>>, long_short_ratio |-> <<>>,
             open_interest |-> <<>>, orderbook_ratio |-> <<>>,
             lines |-> <<>>]
NoCls == [type_pump |-> FALSE, type_dump |-> FALSE, price_change |-> 0,
          threshold |-> 1, pass |-> "none", pump |-> FALSE, dump |-> FALSE]
NoMsg == [user_id |-> NullId, username |-> NullName, key |-> "none",
          ret |-> FALSE]
NoSend == [user_id |-> NullId, category |-> "none", exchange |-> "none",
           outcome |-> "none", remaining |-> 0]

\* the four process_exchange calls of check_signals, in order
PassCategory(p) == IF p \in {1, 2} THEN "pump" ELSE "dump"
PassExchange(p) == IF p \in {1, 3} THEN "Binance" ELSE "Bybit"
CounterField(cat) == "signals_sent_today_" \o cat

LocCount(l, cat) ==
    IF cat = "pump" THEN l.signals_sent_pump ELSE l.signals_sent_dump
LocLimit(l, cat) ==
    IF cat = "pump" THEN l.signals_limit_pump ELSE l.signals_limit_dump
LocThreshold(l, cat) ==
    IF cat = "pump" THEN l.threshold_pump ELSE l.threshold_dump
LocCategoryOn(l, cat) == IF cat = "pump" THEN l.pump_on ELSE l.dump_on
LocExchangeOn(l, ex) == IF ex = "Binance" THEN l.binance_on ELSE l.bybit_on
WithCount(l, cat, n) ==
    IF cat = "pump" THEN [l EXCEPT !.signals_sent_pump = n]
                    ELSE [l EXCEPT !.signals_sent_dump = n]

\* check_signals 966-989: the locals read from the settings row; the
\* per-category keys are absent from the row, so settings.get falls back to
\* the common columns
ReadLocals(row) ==
    [user_id |-> row.user_id, signals_enabled |-> row.signals_enabled,
     signals_sent_pump |-> row.signals_sent_today_pump,
     signals_sent_dump |-> row.signals_sent_today_dump,
     signals_limit_pump |-> row.signals_per_day,
     signals_limit_dump |-> row.signals_per_day,
     threshold_pump |-> row.percent_change,
     threshold_dump |-> row.percent_change,
     pump_on |-> row.type_pump # 0, dump_on |-> row.type_dump # 0,
     binance_on |-> row.exchange_binance # 0,
     bybit_on |-> row.exchange_bybit # 0]

\* PassGuard without the test of the exchange flag
PassGuard_AnyExchange(l, p) ==
    /\ LocCategoryOn(l, PassCategory(p))
    /\ LocCount(l, PassCategory(p)) < LocLimit(l, PassCategory(p))

\* check_signals 991, 993, 1007, 1021, 1023, 1037: is call p made
PassGuard(l, p) ==
    /\ LocCategoryOn(l, PassCategory(p))
    /\ LocExchangeOn(l, PassExchange(p))
    /\ LocCount(l, PassCategory(p)) < LocLimit(l, PassCategory(p))

\* should_send_pump with the threshold itself excluded
should_send_pump_Above(pump_on, price_change, threshold) ==
    pump_on /\ price_change > threshold

\* process_exchange 898
should_send_pump(pump_on, price_change, threshold) ==
    pump_on /\ price_change >= threshold

\* process_exchange 899
should_send_dump(dump_on, price_change, threshold) ==
    dump_on /\ price_change <= -threshold

\* process_exchange 898-900: is an alert sent for this price change; a
\* pump pass is called with (True, False), a dump pass with (False, True)
ShouldSend(cat, price_change, threshold) ==
    \/ should_send_pump(cat = "pump", price_change, threshold)
    \/ should_send_dump(cat = "dump", price_change, threshold)

\* ReturnFromPass with the returned count dropped by check_signals
ReturnFromPass_Forget(n) ==
    /\ loc' = loc
    /\ px' = NoPx
    /\ pass' = pass + 1
    /\ pc' = "pass"

\* process_exchange returned n: check_signals stores it and goes on to
\* its next call
ReturnFromPass(n) ==
    /\ loc' = WithCount(loc, PassCategory(pass), n)
    /\ px' = NoPx
    /\ pass' = pass + 1
    /\ pc' = "pass"

\* await update_symbol_list(): a refresh that is not due or that fails
\* leaves SYMBOLS, a successful one replaces it
CS_UpdateSymbolList ==
    /\ pc = "update"
    /\ \E list \in Universes \cup {SYMBOLS} : SYMBOLS' = list
    /\ pc' = "load"
    /\ UNCHANGED <<dbvars, user_states, day, msgs, ticks, users, idx, loc, pass, px,
                   sent, unreachable, idlevars>>
    /\ last' = NoSend

\* check_signals 951-955: SELECT username, user_id FROM user_settings
CS_LoadUsers ==
    /\ pc = "load"
    /\ \/ /\ users' = [i \in 1..Len(user_settings) |->
                         [username |-> user_settings[i].username,
                          user_id |-> user_settings[i].user_id]]
          /\ idx' = 1
          /\ pc' = "user"
       \/ /\ pc' = "crashed_load"        \* sqlite3.Error
          /\ UNCHANGED <<users, idx>>
    /\ UNCHANGED <<dbvars, user_states, day, msgs, ticks, SYMBOLS, loc, pass, px,
                   sent, unreachable, idlevars>>
    /\ last' = NoSend

\* check_signals 956-989: the head of the loop over the fetched rows
CS_User ==
    /\ pc = "user"
    /\ IF idx > Len(users)
       THEN /\ pc' = "sleep"
            /\ users' = <<>>
            /\ idx' = 0
            /\ UNCHANGED <<access_keys, loc, pass>>
       ELSE LET user_id_db == users[idx].user_id
                r == check_subscription(user_id_db)
                settings == get_user_settings(user_id_db) IN
            \/ /\ user_id_db = NullId
               /\ idx' = idx + 1
               /\ UNCHANGED <<pc, users, access_keys, loc, pass>>
            \/ /\ user_id_db # NullId
               /\ access_keys' = r.ak
               /\ IF r.ret /\ settings # <<>>
                       /\ settings[1].signals_enabled # 0
                  THEN /\ loc' = ReadLocals(settings[1])
                       /\ pass' = 1
                       /\ pc' = "pass"
                       /\ UNCHANGED <<users, idx>>
                  ELSE /\ idx' = idx + 1
                       /\ UNCHANGED <<pc, users, loc, pass>>
            \/ /\ user_id_db # NullId   \* sqlite3.Error in a store call
               /\ pc' = "crashed_user"
               /\ UNCHANGED <<users, idx, access_keys, loc, pass>>
    /\ UNCHANGED <<user_settings, user_states, day, msgs, ticks, SYMBOLS, px,
                   sent, unreachable, idlevars>>
    /\ last' = NoSend

\* check_signals 991-1049: one of the four guarded process_exchange calls
CS_Pass ==
    /\ pc = "pass"
    /\ IF pass > 4
       THEN /\ idx' = idx + 1
            /\ loc' = NoLoc
            /\ pass' = 0
            /\ pc' = "user"
            /\ UNCHANGED px
       ELSE IF PassGuard(loc, pass)
       THEN /\ px' = [symbols |-> SYMBOLS, i |-> 1,
                      signals_sent |-> LocCount(loc, PassCategory(pass)),
                      limit |-> LocLimit(loc, PassCategory(pass)),
                      data |-> 0]
            /\ pc' = "symbol"
            /\ UNCHANGED <<idx, loc, pass>>
       ELSE /\ pass' = pass + 1
            /\ UNCHANGED <<pc, idx, loc, px>>
    /\ UNCHANGED <<dbvars, user_states, day, msgs, ticks, SYMBOLS, users,
                   sent, unreachable, idlevars>>
    /\ last' = NoSend

\* QuotaReached that lets one more symbol through at the quota
QuotaReached_Beyond(signals_sent, limit) == signals_sent > limit

\* process_exchange 847-848: if signals_sent >= limit: break
QuotaReached(signals_sent, limit) == signals_sent >= limit

\* process_exchange 845-851: the head of the loop over the symbols
PX_Symbol ==
    /\ pc = "symbol"
    /\ IF px.i > Len(px.symbols) \/ QuotaReached(px.signals_sent, px.limit)
       THEN ReturnFromPass(px.signals_sent)
       ELSE /\ pc' = "fetch"
            /\ UNCHANGED <<loc, pass, px>>
    /\ UNCHANGED <<dbvars, user_states, day, msgs, ticks, SYMBOLS, users, idx,
                   sent, unreachable, idlevars>>
    /\ last' = NoSend

\* SkipsSymbol that gives up the rest of the universe
SkipsSymbol_Rest(x) == [x EXCEPT !.i = Len(x.symbols) + 1]

\* process_exchange 852-855: except Exception: log, continue
SkipsSymbol(x) == [x EXCEPT !.i = @ + 1]

\* process_exchange 850-858: await price_change_func(symbol, timeframe)
PX_Fetch ==
    /\ pc = "fetch"
    /\ \/ \E p \in PriceChanges :
            /\ px' = [px EXCEPT !.data = p]
            /\ pc' = "enrich"
            /\ last' = NoSend
       \/ /\ px' = SkipsSymbol(px)
          /\ pc' = "symbol"
          /\ last' = [NoSend EXCEPT !.user_id = loc.user_id,
                                    !.outcome = "fetch_failed"]
    /\ UNCHANGED <<dbvars, user_states, day, msgs, ticks, SYMBOLS, users, idx, loc,
                   pass, sent, unreachable, idlevars>>

\* process_exchange 859-900: the indicator awaits, then the classification
PX_Enrich ==
    /\ pc = "enrich"
    /\ IF ShouldSend(PassCategory(pass), px.data,
                     LocThreshold(loc, PassCategory(pass)))
       THEN /\ pc' = "send"
            /\ UNCHANGED px
       ELSE /\ px' = [px EXCEPT !.i = @ + 1, !.data = 0]
            /\ pc' = "symbol"
    /\ UNCHANGED <<dbvars, user_states, day, msgs, ticks, SYMBOLS, users, idx, loc,
                   pass, sent, unreachable, idlevars>>
    /\ last' = NoSend

\* CountAfterSend with the increment moved before the send
CountAfterSend_Eager(outcome, signals_sent) == signals_sent + 1

\* process_exchange 921-935: the count after a send attempt; only a send
\* that returned reaches "signals_sent += 1"
CountAfterSend(outcome, signals_sent) ==
    IF outcome = "ok" THEN signals_sent + 1 ELSE signals_sent

\* StopsPass with a "continue" in the branches that are not chat not found
StopsPass_OnlyUnreachable(outcome) == outcome = "chat_not_found"

\* process_exchange 921-933: every except branch ends in "return"
StopsPass(outcome) == outcome # "ok"

\* process_exchange 915-936: await bot.send_message, then the counter
PX_Send ==
    /\ pc = "send"
    /\ \E outcome \in SendOutcomes :
         LET cat == PassCategory(pass)
             n == CountAfterSend(outcome, px.signals_sent) IN
         /\ last' = [user_id |-> loc.user_id, category |-> cat,
                     exchange |-> PassExchange(pass), outcome |-> outcome,
                     remaining |-> Len(px.symbols) - px.i]
         /\ sent' = IF outcome = "ok"
                    THEN [sent EXCEPT ![loc.user_id][cat] = @ + 1]
                    ELSE sent
         /\ unreachable' = IF outcome = "chat_not_found"
                           THEN unreachable \cup {loc.user_id}
                           ELSE unreachable
         /\ IF StopsPass(outcome)
            THEN /\ ReturnFromPass(n)
                 /\ UNCHANGED user_settings
            ELSE \/ /\ user_settings' =
                         update_user_setting(user_settings, loc.user_id,
                                             CounterField(cat), n)
                    /\ px' = [px EXCEPT !.signals_sent = n,
                                        !.i = @ + 1, !.data = 0]
                    /\ pc' = "symbol"
                    /\ UNCHANGED <<loc, pass>>
                 \/ /\ pc' = "crashed_persist"      \* sqlite3.Error
                    /\ UNCHANGED <<user_settings, loc, pass, px>>
    /\ UNCHANGED <<access_keys, user_states, day, msgs, ticks, SYMBOLS, users,
                   idx, idlevars>>

\* check_signals 1050: await asyncio.sleep(300), then the next tick
CS_Sleep ==
    /\ pc = "sleep"
    /\ ticks < MaxTicks
    /\ ticks' = ticks + 1
    /\ pc' = "update"
    /\ unreachable' = {}
    /\ last' = NoSend
    /\ UNCHANGED <<dbvars, user_states, day, msgs, SYMBOLS, users, idx, loc,
                   pass, px, sent, idlevars>>

check_signals ==
    \/ CS_UpdateSymbolList \/ CS_LoadUsers \/ CS_User \/ CS_Pass
    \/ PX_Symbol \/ PX_Fetch \/ PX_Enrich \/ PX_Send \/ CS_Sleep

\* ------------------------------------------------------------------------
\* The environment: inbound messages and the calendar

HandlerMayRun == pc \in Suspended \cup Crashed

Message(handler) ==
    /\ HandlerMayRun
    /\ msgs < MaxMsgs
    /\ msgs' = msgs + 1
    /\ handler
    /\ UNCHANGED <<day, SYMBOLS, loopvars, histvars, idlevars>>

\* Inbound messages of the dispatch specification: the commands and menu
\* tokens that change what check_signals reads, sent by the identity that
\* holds (or held) the loaded key
Senders == {1}
Activate == \E u \in Senders, k \in DOMAIN access_keys :
                Message(cmd_activate(u, NoHandle, k))
Toggle == \E u \in Senders, t \in DOMAIN ToggleField :
                Message(handle_menu(u, NoHandle, t))
Logout == \E u \in Senders : Message(handle_menu(u, NoHandle, "Logout"))

\* midnight UTC passes while the loop sleeps between two ticks; the history
\* of today's deliveries starts anew
DayBoundary ==
    /\ pc = "sleep"
    /\ day < MaxDay
    /\ day' = day + 1
    /\ sent' = [u \in Users |-> [c \in Categories |-> 0]]
    /\ UNCHANGED <<dbvars, user_states, msgs, SYMBOLS, loopvars, last,
                   unreachable, idlevars>>

\* keys.db outlives the process.  The store found at start is the one an
\* earlier run of the same day left behind: identity 1 activated the loaded
\* key on day 0 and was sent c alerts of each category since.  The counters
\* of a newly created settings record are reached through Logout and
\* /activate.
StartRow(user_id, c) ==
    [NewSettingsRow(ToString(user_id), user_id, 0) EXCEPT
        !.signals_sent_today_pump = c, !.signals_sent_today_dump = c]
StartKey(user_id) ==
    [duration_months |-> 1, username |-> ToString(user_id),
     user_id |-> user_id, activated_at |-> 0,
     expires_at |-> DaysPerMonth, is_active |-> 1]
StartCounts == {DefaultSignalsPerDay - 1}

InitStore ==
    \E c \in StartCounts :
       /\ user_settings = <<StartRow(1, c)>>
       /\ access_keys = [k \in {"K1"} |-> StartKey(1)]
       /\ sent = [u \in Users |->
                    [cat \in Categories |-> IF u = 1 THEN c ELSE 0]]

\* the process right after main() created the check_signals task
InitProcess ==
    /\ user_states = [u \in Users |-> NoState]
    /\ day = 0
    /\ msgs = 0
    /\ ticks = 0
    /\ SYMBOLS = <<"BTCUSDT", "ETHUSDT">>
    /\ pc = "update"
    /\ users = <<>>
    /\ idx = 0
    /\ loc = NoLoc
    /\ pass = 0
    /\ px = NoPx
    /\ last = NoSend
    /\ unreachable = {}
    /\ msg = NoMsg
    /\ PRICE_CACHE = [e \in Exchanges |-> NoEntries]
    /\ calls = <<>>
    /\ sem = [e \in Exchanges |-> NewSemaphore]
    /\ TOP_SYMBOLS_LAST_UPDATE = 0
    /\ upd = NoUpd
    /\ shown = [u \in Users |-> NoShown]
    /\ enr = NoEnr
    /\ signal = NoSignal

Init == InitStore /\ InitProcess /\ cls = NoCls /\ now = 0

Next == check_signals \/ Activate \/ Toggle \/ Logout \/ DayBoundary

Spec == Init /\ [][Next]_vars

\* ------------------------------------------------------------------------
\* Properties of the dispatch pipeline (specification Spec)

\* the step in which the pending bot.send_message call ends
SendStep == pc = "send" /\ pc' # "send"
Delivered == SendStep /\ last'.outcome = "ok"
SendFailed == SendStep /\ last'.outcome \in SendOutcomes \ {"ok"}

\* the persisted counter of an identity, 0 without a settings record
CountOf(table, user_id, cat) ==
    LET rows == SettingsOf(table, user_id) IN
    IF rows = <<>> THEN 0 ELSE rows[1][CounterField(cat)]

\* do the persisted settings of the identity allow an alert of this
\* category and exchange
SettingsAllow(user_id, cat, ex) ==
    LET s == get_user_settings(user_id) IN
    /\ s # <<>>
    /\ s[1].signals_enabled = 1
    /\ (IF cat = "pump" THEN s[1].type_pump ELSE s[1].type_dump) = 1
    /\ (IF ex = "Binance" THEN s[1].exchange_binance
                          ELSE s[1].exchange_bybit) = 1
    /\ s[1][CounterField(cat)] < s[1].signals_per_day

\* C1: for every identity with a settings record and each category, the
\* number of alerts delivered to it today never exceeds its daily quota,
\* whatever cycles, setting changes, logouts and re-activations took place.
C1_QuotaNeverExceeded ==
    \A u \in Users, cat \in Categories :
        LET s == get_user_settings(u) IN
        s # <<>> => sent[u][cat] <= s[1].signals_per_day

\* C2: the count of a category is incremented and persisted only by a send
\* that returned; a send that raised leaves the count process_exchange
\* returns and every persisted counter as they were.
C2_CountOnlyAfterDelivery ==
    [][/\ SendFailed =>
            /\ user_settings' = user_settings
            /\ LocCount(loc', PassCategory(pass)) = px.signals_sent
       /\ \A u \in Users, cat \in Categories :
            CountOf(user_settings', u, cat) > CountOf(user_settings, u, cat)
                => /\ Delivered
                   /\ last'.user_id = u
                   /\ last'.category = cat
                   /\ CountOf(user_settings', u, cat) = px.signals_sent + 1]_vars

\* C2 witness: a send raised in the middle of a pass that had a count
C2_Witness ==
    /\ last.outcome = "error"
    /\ pc = "pass"
    /\ LocCount(loc, last.category) = DefaultSignalsPerDay - 1

\* C3 as stated: an alert is delivered only when the settings persisted at
\* that moment have signals, the category and the exchange enabled and the
\* persisted count below the quota.
C3_PersistedSettingsAllow ==
    [][Delivered =>
          SettingsAllow(loc.user_id, PassCategory(pass), PassExchange(pass))]_vars

\* C3 amended: an alert is delivered only when the settings read at the
\* start of the identity's evaluation in this tick had signals, the
\* category and the exchange enabled, and the count read then plus the
\* deliveries made since is below the quota read then.
C3_SnapshotAllows ==
    [][Delivered =>
          /\ loc.signals_enabled # 0
          /\ LocCategoryOn(loc, PassCategory(pass))
          /\ LocExchangeOn(loc, PassExchange(pass))
          /\ px.limit = LocLimit(loc, PassCategory(pass))
          /\ px.signals_sent < px.limit
          /\ px.signals_sent >= LocCount(loc, PassCategory(pass))]_vars

\* C3 witness: an alert was delivered although the persisted category flag
\* had been switched off while the evaluation was suspended
C3_Witness ==
    /\ last.outcome = "ok"
    /\ get_user_settings(last.user_id) # <<>>
    /\ get_user_settings(last.user_id)[1].type_pump = 0
    /\ last.category = "pump"

\* C4: at each UTC day boundary the counters of every identity are reset to
\* zero.
C4_ResetAtDayBoundary ==
    [][day' # day =>
          \A i \in 1..Len(user_settings') :
              /\ user_settings'[i].signals_sent_today_pump = 0
              /\ user_settings'[i].signals_sent_today_dump = 0]_vars

\* C7: no failure that concerns one identity (a store error while reading
\* its settings or persisting its counter) ends the check_signals task.
C7_LoopSurvives == pc \notin {"crashed_user", "crashed_persist"}

\* C8: after a delivery to an identity failed with chat not found, no
\* further delivery to it is attempted in the same tick.
C8_NoSendAfterUnreachable == pc = "send" => loc.user_id \notin unreachable

\* C9 as stated: after a send that failed with a transient error the pass
\* continues with the next symbol.
C9_TransientContinues ==
    [][(SendStep /\ last'.outcome \in {"bad_request", "error"}) =>
          /\ pc' = "symbol"
          /\ pass' = pass
          /\ px'.i = px.i + 1]_vars

\* C9 amended: after a send that failed with a transient error
\* process_exchange returns the unchanged count; the remaining symbols are
\* not evaluated in this pass and check_signals goes on to its next call.
C9_TransientEndsPass ==
    [][(SendStep /\ last'.outcome \in {"bad_request", "error"}) =>
          /\ pc' = "pass"
          /\ pass' = pass + 1
          /\ px' = NoPx
          /\ loc' = WithCount(loc, PassCategory(pass), px.signals_sent)]_vars

\* C9 witness: a transient failure on a symbol that was not the last one
C9_Witness ==
    /\ last.outcome \in {"bad_request", "error"}
    /\ last.remaining > 0
    /\ pc = "pass"

\* ------------------------------------------------------------------------
\* The entitlement store under its message handlers (specification
\* SpecKeys): both identities, every handle and every key text, while the
\* check_signals task waits in its first await.

KeyMessage(handler, m) ==
    /\ HandlerMayRun
    /\ msgs < MaxKeyMsgs
    /\ msgs' = msgs + 1
    /\ handler
    /\ msg' = m
    /\ UNCHANGED <<day, SYMBOLS, loopvars, histvars, gwvars, auxvars>>

\* the activate_key call a message leads to, with the value it returns
KeyCall(user_id, handle, key) ==
    [user_id |-> user_id, username |-> UsernameOf(user_id, handle),
     key |-> key,
     ret |-> activate_key(key, UsernameOf(user_id, handle), user_id).ret]

K_Start == \E u \in Users : KeyMessage(cmd_start(u), NoMsg)
K_Activate ==
    \E u \in Users, h \in Handles, k \in KeyTexts :
        KeyMessage(cmd_activate(u, h, k), KeyCall(u, h, k))
K_Submit ==
    \E u \in Users, h \in Handles, k \in KeyTexts :
        /\ user_states[u].awaiting_key
        /\ KeyMessage(handle_menu(u, h, k), KeyCall(u, h, k))
K_Logout ==
    \E u \in Users, h \in Handles :
        /\ ~user_states[u].awaiting_key
        /\ KeyMessage(handle_menu(u, h, "Logout"), NoMsg)
K_Midnight ==
    /\ HandlerMayRun
    /\ day < MaxKeyDay
    /\ day' = day + 1
    /\ UNCHANGED <<dbvars, user_states, msgs, SYMBOLS, loopvars, histvars,
                   idlevars>>

\* the fresh store of init_db with both keys loaded by add_key
FreshStore ==
    /\ user_settings = <<>>
    /\ access_keys = [k \in Keys |-> NewKeyRow(1)]
    /\ sent = [u \in Users |-> [cat \in Categories |-> 0]]

InitKeys == FreshStore /\ InitProcess /\ cls = NoCls /\ now = 0

NextKeys == K_Start \/ K_Activate \/ K_Submit \/ K_Logout \/ K_Midnight

SpecKeys == InitKeys /\ [][NextKeys]_vars

\* the step of an activate_key call
KeyStep == msgs' = msgs + 1 /\ msg'.key # "none"

\* C5: activate_key for a key that is active and bound to another numeric
\* user id returns False and changes no access_keys or user_settings row,
\* whatever username the caller carries.
C5_ForeignActivationRejected ==
    [][(/\ KeyStep
        /\ msg'.key \in DOMAIN access_keys
        /\ access_keys[msg'.key].is_active = 1
        /\ access_keys[msg'.key].user_id # msg'.user_id) =>
          /\ msg'.ret = FALSE
          /\ access_keys' = access_keys
          /\ user_settings' = user_settings]_vars

\* C6: every active key is bound to one identity, and no identity owns more
\* than one active key.
C6_OneActiveKeyEach ==
    /\ \A k \in DOMAIN access_keys :
          access_keys[k].is_active = 1 => access_keys[k].user_id \in Users
    /\ \A u \in Users :
          Cardinality({k \in DOMAIN access_keys :
                         /\ access_keys[k].is_active = 1
                         /\ access_keys[k].user_id = u}) <= 1

\* C14: when a key is activated successfully for an identity that is in
\* awaiting_key, by a submitted text or by /activate, the identity is no
\* longer in awaiting_key afterwards.
C14_ActivationClearsAwaiting ==
    [][(/\ KeyStep
        /\ msg'.ret
        /\ user_states[msg'.user_id].awaiting_key) =>
          ~user_states'[msg'.user_id].awaiting_key]_vars

\* ------------------------------------------------------------------------
\* binance-api.py / bybit-api.py: get_price_change and its cache
\* (specification SpecGateway).  The two modules keep one PRICE_CACHE each
\* and share the code of get_price_change.  bot.py awaits every call
\* before it makes the next one, so one call is in progress at a time.

GwKeys == {<<"BTCUSDT", "15m">>, <<"ETHUSDT", "15m">>}   \* (symbol, interval)
\* the calls process_exchange makes: both symbols on Binance, the first of
\* them on Bybit as well
GwCalls ==
    {c \in Exchanges \X GwKeys : c[1] = "Binance" \/ c[2][1] = "BTCUSDT"}
NoStamp == -1
NoResult == [price_change |-> 0, price_now |-> 0, volume_now |-> 0,
             volume_prev |-> 0, volume_change |-> 0]

\* a candle as get_price_change reads it: kline[1], kline[4], kline[5]
Candle(open, close, volume) ==
    [open |-> open, close |-> close, volume |-> volume]
\* what await get_klines(...) gives: an exception, or a list of candles
KlineResponses ==
    {[ok |-> FALSE, klines |-> <<>>],
     [ok |-> TRUE, klines |-> <<Candle(100, 100, 10)>>],
     [ok |-> TRUE, klines |-> <<Candle(100, 100, 10), Candle(0, 100, 10)>>],
     [ok |-> TRUE, klines |-> <<Candle(100, 100, 0), Candle(100, 102, 10)>>],
     [ok |-> TRUE, klines |-> <<Candle(100, 100, 10), Candle(100, 98, 15)>>]}

\* get_price_change 41-56: the result computed from two candles
PriceResult(prev_kline, curr_kline) ==
    [price_change |->
        ((curr_kline.close - curr_kline.open) * 100) \div curr_kline.open,
     price_now |-> curr_kline.close,
     volume_now |-> curr_kline.volume,
     volume_prev |-> prev_kline.volume,
     volume_change |->
        IF prev_kline.volume # 0
        THEN ((curr_kline.volume - prev_kline.volume) * 100)
                 \div prev_kline.volume
        ELSE 0]

\* get_price_change 41-47: klines[1] of a short list raises IndexError, a
\* zero open raises ZeroDivisionError
Computable(resp) ==
    /\ resp.ok
    /\ Len(resp.klines) >= 2
    /\ resp.klines[2].open # 0

\* get_price_change 40-47: the exception the call ends with, "none" when
\* the result is computed.  get_klines raises in the request or the JSON
\* parse, klines[1] of a short list raises IndexError, and the division by
\* float(curr_kline[1]) = 0.0 raises ZeroDivisionError
RaisedBy(resp) ==
    IF ~resp.ok THEN "ClientError"
    ELSE IF Len(resp.klines) < 2 THEN "IndexError"
    ELSE IF resp.klines[2].open = 0 THEN "ZeroDivisionError"
    ELSE "none"

\* CacheFresh with an entry of exactly CACHE_TTL seconds still served
CacheFresh_Inclusive(cache, key, t) ==
    /\ key \in DOMAIN cache
    /\ t - cache[key].timestamp <= CACHE_TTL

\* get_price_change 35-36: is there an entry and is it younger than the TTL
CacheFresh(cache, key, t) ==
    /\ key \in DOMAIN cache
    /\ t - cache[key].timestamp < CACHE_TTL

\* PRICE_CACHE[key] = {"data": result, "timestamp": now}
CachePut(cache, key, result, t) ==
    [k \in DOMAIN cache \cup {key} |->
        IF k = key THEN [data |-> result, timestamp |-> t] ELSE cache[k]]

\* CacheAfter that remembers a failure as an entry without data
CacheAfter_Stamped(cache, key, resp, t) ==
    IF Computable(resp)
    THEN CachePut(cache, key, PriceResult(resp.klines[1], resp.klines[2]), t)
    ELSE CachePut(cache, key, NoResult, t)

\* get_price_change 40-58: the cache when the call ends; line 58 is reached
\* only when the result was computed
CacheAfter(cache, key, resp, t) ==
    IF Computable(resp)
    THEN CachePut(cache, key, PriceResult(resp.klines[1], resp.klines[2]), t)
    ELSE cache

Waiting == \E i \in 1..Len(calls) : calls[i].status = "waiting"

\* get_price_change 32-40: the call up to its return from the cache or to
\* its await of get_klines
GW_Call ==
    /\ ~Waiting
    /\ Len(calls) < MaxCalls
    /\ \E c \in GwCalls :
         LET ex == c[1]
             key == c[2]
             cache == PRICE_CACHE[ex]
             seen == IF key \in DOMAIN cache THEN cache[key].timestamp
                                             ELSE NoStamp
             hit == CacheFresh(cache, key, now) IN
         calls' = Append(calls,
                    [exchange |-> ex, key |-> key, start |-> now,
                     seen |-> seen, requested |-> ~hit,
                     status |-> IF hit THEN "cached" ELSE "waiting",
                     error |-> "none",
                     result |-> IF hit THEN cache[key].data ELSE NoResult])
    /\ UNCHANGED <<now, PRICE_CACHE>>
    /\ UNCHANGED <<dbvars, user_states, day, msgs, SYMBOLS, loopvars,
                   histvars, msg, auxvars>>

\* get_price_change 40-59: get_klines answered; the result is computed and
\* cached under the time read when the call started, or the call raises
GW_Klines ==
    /\ Waiting
    /\ \E resp \in KlineResponses :
         LET i == Len(calls)
             c == calls[i] IN
         /\ PRICE_CACHE' = [PRICE_CACHE EXCEPT ![c.exchange] =
                              CacheAfter(@, c.key, resp, c.start)]
         /\ IF Computable(resp)
            THEN calls' = [calls EXCEPT
                             ![i].status = "ok",
                             ![i].result = PriceResult(resp.klines[1],
                                                       resp.klines[2])]
            ELSE calls' = [calls EXCEPT ![i].status = "failed",
                                        ![i].error = RaisedBy(resp)]
    /\ UNCHANGED now
    /\ UNCHANGED <<dbvars, user_states, day, msgs, SYMBOLS, loopvars,
                   histvars, msg, auxvars>>

\* time.time() moves on
GW_Clock ==
    /\ now + TimeStep <= MaxNow
    /\ now' = now + TimeStep
    /\ UNCHANGED <<PRICE_CACHE, calls>>
    /\ UNCHANGED <<dbvars, user_states, day, msgs, SYMBOLS, loopvars,
                   histvars, msg, auxvars>>

InitGateway == FreshStore /\ InitProcess /\ cls = NoCls /\ now = 0

NextGateway == GW_Call \/ GW_Klines \/ GW_Clock

SpecGateway == InitGateway /\ [][NextGateway]_vars

SameKey(c, d) == c.exchange = d.exchange /\ c.key = d.key

\* C10: of two calls for one (symbol, timeframe) on one gateway that start
\* less than CACHE_TTL apart, the first having succeeded, only the first
\* makes a candle request; a call that starts CACHE_TTL or more after the
\* cached timestamp makes a request, and its result replaces the entry
\* under the time the call started.
C10_CacheWithinTtl ==
    /\ \A i, j \in 1..Len(calls) :
          (/\ i < j
           /\ SameKey(calls[i], calls[j])
           /\ calls[i].status = "ok"
           /\ calls[j].start - calls[i].start < CACHE_TTL)
              => ~calls[j].requested
    /\ \A j \in 1..Len(calls) :
          (calls[j].seen # NoStamp /\ calls[j].start - calls[j].seen >= CACHE_TTL)
              => calls[j].requested
    /\ \A j \in 1..Len(calls) :
          (/\ calls[j].status = "ok"
           /\ \A k \in (j+1)..Len(calls) :
                 SameKey(calls[j], calls[k]) => calls[k].status # "ok")
              => PRICE_CACHE[calls[j].exchange][calls[j].key] =
                     [data |-> calls[j].result, timestamp |-> calls[j].start]

\* C10 witness: a call served from the cache less than CACHE_TTL after the
\* call that filled it, then a call after the TTL that replaced the entry
C10_Witness ==
    \E i, j, k \in 1..Len(calls) :
        /\ i < j /\ j < k
        /\ SameKey(calls[i], calls[j]) /\ SameKey(calls[i], calls[k])
        /\ calls[i].status = "ok"
        /\ calls[j].status = "cached"
        /\ calls[k].status = "ok"
        /\ calls[k].seen = calls[i].start
        /\ calls[k].start - calls[k].seen >= CACHE_TTL
        /\ PRICE_CACHE[calls[k].exchange][calls[k].key].timestamp = calls[k].start

\* ------------------------------------------------------------------------
\* binance-api.py / bybit-api.py: get_klines and the semaphore of its module
\* (specification SpecLimiter).  Any number of callers may be inside
\* get_klines at once; each makes its request inside "async with SEMAPHORE".

\* HasPermit with the request made outside the semaphore
HasPermit_Always(s) == TRUE

\* asyncio.Semaphore.acquire: a permit is left to take
HasPermit(s) == s.value > 0

\* asyncio.Semaphore.locked(): no permit left, or callers queued already
Locked(s) == s.value = 0 \/ s.waiting > 0

\* get_klines: a caller reaches "async with SEMAPHORE"; it takes a permit
\* and goes on to its request, or waits in acquire()
L_Enter ==
    /\ \E ex \in Exchanges :
         /\ sem[ex].entered < MaxCallers
         /\ \/ /\ HasPermit(sem[ex])
               /\ sem' = [sem EXCEPT ![ex].value = @ - 1,
                                     ![ex].inflight = @ + 1,
                                     ![ex].entered = @ + 1]
            \/ /\ Locked(sem[ex])
               /\ sem' = [sem EXCEPT ![ex].waiting = @ + 1,
                                     ![ex].entered = @ + 1]
    /\ UNCHANGED <<dbvars, user_states, day, msgs, SYMBOLS, loopvars,
                   histvars, msg, gwvars, TOP_SYMBOLS_LAST_UPDATE, upd, shown,
                   cls, enr, signal>>

\* a caller waiting in acquire() is woken and takes the released permit
L_Wake ==
    /\ \E ex \in Exchanges :
         /\ sem[ex].waiting > 0
         /\ HasPermit(sem[ex])
         /\ sem' = [sem EXCEPT ![ex].value = @ - 1,
                               ![ex].waiting = @ - 1,
                               ![ex].inflight = @ + 1]
    /\ UNCHANGED <<dbvars, user_states, day, msgs, SYMBOLS, loopvars,
                   histvars, msg, gwvars, TOP_SYMBOLS_LAST_UPDATE, upd, shown,
                   cls, enr, signal>>

\* get_klines: the request returned or raised; leaving the "async with"
\* block releases the permit
L_Leave ==
    /\ \E ex \in Exchanges :
         /\ sem[ex].inflight > 0
         /\ sem' = [sem EXCEPT ![ex].value = @ + 1,
                               ![ex].inflight = @ - 1]
    /\ UNCHANGED <<dbvars, user_states, day, msgs, SYMBOLS, loopvars,
                   histvars, msg, gwvars, TOP_SYMBOLS_LAST_UPDATE, upd, shown,
                   cls, enr, signal>>

InitLimiter == FreshStore /\ InitProcess /\ cls = NoCls /\ now = 0

NextLimiter == L_Enter \/ L_Wake \/ L_Leave

SpecLimiter == InitLimiter /\ [][NextLimiter]_vars

\* C11: at most 5 candle requests are in flight to one exchange, however
\* many callers are inside get_klines.
C11_AtMostFiveInFlight ==
    \A ex \in Exchanges : sem[ex].inflight <= 5

\* C11 witness: five requests in flight to an exchange while further
\* callers wait for a permit
C11_Witness ==
    \E ex \in Exchanges : sem[ex].inflight = 5 /\ sem[ex].waiting > 1

\* ------------------------------------------------------------------------
\* bot.py: the menus of handle_menu (specification SpecMenu).  One identity
\* sends commands and texts in any order; `shown` records the reply
\* keyboard its chat displays (an answer without reply_markup keeps the
\* keyboard that is there) and the keyboard displayed when the pending
\* value prompt was entered.

Keyboards == {"main", "pump", "dump", "settings", "type_alerts",
              "timeframe", "price", "signals"}
PromptKeyboards == {"timeframe", "price", "signals"}
Keep == "keep"                    \* no answer, or one without reply_markup

\* kb = pump_menu_kb if state.get("menu") == "pump" else dump_menu_kb
CategoryKeyboard(state) == IF state.menu = "pump" THEN "pump" ELSE "dump"

\* handle_menu: the reply_markup of the answer to this text
reply_markup(user_id, handle, text) ==
    LET state == user_states[user_id] IN
    IF state.awaiting_key
    THEN IF activate_key(text, UsernameOf(user_id, handle), user_id).ret
         THEN "main" ELSE Keep
    ELSE IF state.setting # "none" /\ AcceptsValue(state.setting, text)
    THEN IF ColumnExists(PromptField(state.setting, state.menu))
         THEN CategoryKeyboard(state) ELSE Keep
    ELSE IF state.setting # "none" /\ text = "Back"
    THEN CategoryKeyboard(state)
    ELSE CASE text = "Pump Alerts" -> "pump"
           [] text = "Dump Alerts" -> "dump"
           [] text = "Settings" -> "settings"
           [] text = "Type Alerts" -> "type_alerts"
           [] text \in {"My Profile", "Logout"} -> "main"
           [] text = "Timeframe" -> "timeframe"
           [] text = "Price change" -> "price"
           [] text = "Signals per day" -> "signals"
           [] text \in {"Pump ON/OFF", "Dump ON/OFF"} -> "type_alerts"
           [] text \in {"Binance ON/OFF", "Bybit ON/OFF", "Signals ON/OFF"}
                 -> "settings"
           [] text = "Back" ->
                 IF state.menu = "type_alerts" THEN "settings" ELSE "main"
           [] OTHER -> Keep

\* the chat after an answer with keyboard kb
ShownAfter(user_id, kb) ==
    [shown EXCEPT ![user_id] =
        [kb |-> IF kb = Keep THEN @.kb ELSE kb,
         origin |-> IF kb \in PromptKeyboards /\ @.kb \notin PromptKeyboards
                    THEN @.kb ELSE @.origin]]

MenuTexts == MenuTokens \cup ValueTexts \cup {"K1", UnknownKey}

\* the message handled and, for a key submitted in awaiting_key, the value
\* activate_key returned
MenuCall(user_id, handle, text) ==
    [user_id |-> user_id, username |-> UsernameOf(user_id, handle),
     key |-> text,
     ret |-> /\ user_states[user_id].awaiting_key
             /\ activate_key(text, UsernameOf(user_id, handle), user_id).ret]

MenuMessage(handler, m, user_id, kb) ==
    /\ HandlerMayRun
    /\ msgs < MaxMenuMsgs
    /\ msgs' = msgs + 1
    /\ handler
    /\ msg' = m
    /\ shown' = ShownAfter(user_id, kb)
    /\ UNCHANGED <<day, SYMBOLS, loopvars, histvars, gwvars, sem,
                   TOP_SYMBOLS_LAST_UPDATE, upd, cls, enr, signal>>

M_Start ==
    \E u \in Senders :
        MenuMessage(cmd_start(u), [NoMsg EXCEPT !.user_id = u, !.key = "/start"],
                    u, IF check_subscription(u).ret THEN "main" ELSE Keep)
M_Activate ==
    \E u \in Senders :
        MenuMessage(cmd_activate(u, NoHandle, "K1"),
                    [KeyCall(u, NoHandle, "K1") EXCEPT !.key = "/activate"],
                    u, IF KeyCall(u, NoHandle, "K1").ret THEN "main" ELSE Keep)
M_Text ==
    \E u \in Senders, text \in MenuTexts :
        MenuMessage(handle_menu(u, NoHandle, text),
                    MenuCall(u, NoHandle, text),
                    u, reply_markup(u, NoHandle, text))

InitMenu == FreshStore /\ InitProcess /\ cls = NoCls /\ now = 0

NextMenu == M_Start \/ M_Activate \/ M_Text \/ K_Midnight

SpecMenu == InitMenu /\ [][NextMenu]_vars

\* a message of the menu specification was handled
MenuStep == msgs' = msgs + 1
\* ... and it was a text handled by handle_menu outside awaiting_key
TextStep(u) ==
    /\ MenuStep
    /\ msg'.user_id = u
    /\ msg'.key \notin {"/start", "/activate"}
    /\ ~user_states[u].awaiting_key

\* the menu hierarchy of the keyboards: main_menu_kb leads to the pump,
\* dump and settings menus, settings_menu_kb to the type alerts menu
Parent(kb) ==
    CASE kb = "type_alerts" -> "settings"
      [] kb \in {"pump", "dump", "settings"} -> "main"
      [] OTHER -> kb

\* the keyboard that belongs to a recorded state
Recorded(state) ==
    IF state.setting = "timeframe" THEN "timeframe"
    ELSE IF state.setting = "percent_change" THEN "price"
    ELSE IF state.setting = "signals_per_day" THEN "signals"
    ELSE IF state.menu = "none" THEN "main"
    ELSE state.menu

\* C12: "Back" in a value prompt shows the menu that was displayed before
\* the prompt was entered and ends the prompt; "Back" in a submenu shows
\* its parent menu; after "Back" the recorded state is that of the menu
\* shown.
C12_BackRestoresMenu ==
    [][\A u \in Users :
          (TextStep(u) /\ msg'.key = "Back") =>
             /\ (msg'.key = "Back" /\ user_states[u].setting # "none") =>
                   /\ shown'[u].kb = shown[u].origin
                   /\ user_states'[u].setting = "none"
             /\ (/\ msg'.key = "Back"
                 /\ user_states[u].setting = "none"
                 /\ shown[u].kb \in {"pump", "dump", "settings", "type_alerts"})
                   => shown'[u].kb = Parent(shown[u].kb)
             /\ shown'[u].kb = Recorded(user_states'[u])]_vars

\* C13: in a value prompt a text that is neither an option the prompt
\* accepts nor "Back" changes neither the menu state nor any persisted row.
C13_UnmatchedTextIgnored ==
    [][\A u \in Users :
          (/\ TextStep(u)
           /\ user_states[u].setting # "none"
           /\ ~AcceptsValue(user_states[u].setting, msg'.key)
           /\ msg'.key # "Back") =>
             /\ user_states' = user_states
             /\ user_settings' = user_settings
             /\ access_keys' = access_keys]_vars

\* C15: a text from an identity whose check_subscription is false enters no
\* menu or prompt state and changes no settings row (a key submitted in
\* awaiting_key apart).
C15_UnentitledNoMenu ==
    [][\A u \in Users :
          (TextStep(u) /\ ~check_subscription(u).ret) =>
             /\ user_states'[u].menu = "none"
             /\ user_states'[u].setting = "none"
             /\ user_settings' = user_settings]_vars

\* C16: a value accepted in a prompt is persisted in the per-category
\* column of the menu the prompt was entered from, and the handler goes on
\* to end the prompt.
C16_AcceptedValuePersisted ==
    [][\A u \in Users :
          (/\ TextStep(u)
           /\ user_states[u].setting # "none"
           /\ AcceptsValue(user_states[u].setting, msg'.key)
           /\ get_user_settings(u) # <<>>) =>
             LET field == PromptField(user_states[u].setting,
                                      user_states[u].menu) IN
             /\ user_states'[u].setting = "none"
             /\ ColumnExists(field)
             /\ SettingsOf(user_settings', u)[1][field] = msg'.key]_vars

\* ------------------------------------------------------------------------
\* bot.py: update_symbol_list and the two ticker fetches (specification
\* SpecUniverse).  check_signals awaits one call per tick.  upd.log keeps,
\* for every call, the time it started, what each exchange answered, the
\* number of ticker requests it made and how it ended.

\* a futures pair of the long ticker list
GenSymbol(i) == "T" \o ToString(i) \o "USDT"
UsdtSymbols ==
    {"BTCUSDT", "ETHUSDT", "SOLUSDT"} \cup
    {GenSymbol(i) : i \in 1..(TopLimit + 2)}
NoVolume == -1                  \* the volume field is missing or no number
\* item["symbol"].endswith("USDT")
EndsWithUSDT(symbol) == symbol \in UsdtSymbols

Ticker(symbol, volume) == [symbol |-> symbol, volume |-> volume]

\* what the ticker request of Binance gives: an exception (network, JSON,
\* or a body that is no list of tickers) or a list of tickers
BinanceResponses ==
    {[kind |-> "error", list |-> <<>>],
     [kind |-> "list", list |-> <<Ticker("BTCUSDT", NoVolume)>>],
     [kind |-> "list", list |-> <<Ticker("BTCUSDT", 5), Ticker("BTCUSDC", 7),
                                  Ticker("ETHUSDT", 9)>>],
     [kind |-> "list",
      list |-> [i \in 1..(TopLimit + 2) |-> Ticker(GenSymbol(i), i)]]}
\* the same for Bybit, whose body may also carry no result.list
BybitResponses ==
    {[kind |-> "error", list |-> <<>>],
     [kind |-> "nolist", list |-> <<>>],
     [kind |-> "list",
      list |-> <<Ticker("ETHUSDT", 3), Ticker("SOLUSDT", 8),
                 Ticker(GenSymbol(1), 5), Ticker(GenSymbol(TopLimit + 2), 1)>>]}

\* sorted(usdt_pairs, key=volume, reverse=True): stable, descending
RECURSIVE SortedPairs(_)
SortedPairs(items) ==
    IF items = <<>> THEN <<>>
    ELSE LET h == Head(items)
             rest == SortedPairs(Tail(items)) IN
         SelectSeq(rest, LAMBDA x : x.volume > h.volume) \o <<h>> \o
         SelectSeq(rest, LAMBDA x : x.volume <= h.volume)

\* does fetch_top_*_symbols raise on this response
FetchRaises(resp) ==
    \/ resp.kind = "error"
    \/ \E i \in 1..Len(resp.list) :
          EndsWithUSDT(resp.list[i].symbol) /\ resp.list[i].volume = NoVolume

\* fetch_top_binance_symbols / fetch_top_bybit_symbols: the list returned
FetchTop(resp) ==
    LET usdt_pairs == SelectSeq(resp.list, LAMBDA x : EndsWithUSDT(x.symbol))
        sorted_pairs == SortedPairs(usdt_pairs) IN
    [i \in 1..(IF Len(sorted_pairs) < TopLimit THEN Len(sorted_pairs)
                                               ELSE TopLimit) |->
        sorted_pairs[i].symbol]

\* UniqueSymbols that keeps every occurrence
UniqueSymbols_All(list) == list

\* update_symbol_list 312-315: first occurrences, in order
RECURSIVE UniqueSymbols(_)
UniqueSymbols(list) ==
    IF list = <<>> THEN <<>>
    ELSE LET front == UniqueSymbols(SubSeq(list, 1, Len(list) - 1))
             sym == list[Len(list)] IN
         IF \E i \in 1..Len(front) : front[i] = sym THEN front
         ELSE Append(front, sym)

\* RefreshDue with the throttle window closed at both ends
RefreshDue_After(t, last_update) == ~(t - last_update <= REFRESH_INTERVAL)

\* update_symbol_list 307: the refresh is skipped inside the hour
RefreshDue(t, last_update) == ~(t - last_update < REFRESH_INTERVAL)

NewCall(t, due) ==
    [start |-> t, end |-> t, binance |-> "none", bybit |-> "none",
     binance_list |-> <<>>, bybit_list |-> <<>>,
     requests |-> 0, outcome |-> IF due THEN "running" ELSE "skipped"]

\* update_symbol_list 307-310: the call up to its return or its first await
U_Call ==
    /\ upd.pc = "idle"
    /\ Len(upd.log) < MaxUpdates
    /\ LET due == RefreshDue(now, TOP_SYMBOLS_LAST_UPDATE) IN
       upd' = [upd EXCEPT !.pc = IF due THEN "binance" ELSE "idle",
                          !.log = Append(@, NewCall(now, due))]
    /\ UNCHANGED <<SYMBOLS, TOP_SYMBOLS_LAST_UPDATE, now>>
    /\ UNCHANGED <<dbvars, user_states, day, msgs, loopvars, histvars, msg,
                   PRICE_CACHE, calls, sem, shown, cls, enr, signal>>

\* update_symbol_list 310: fetch_top_binance_symbols returned or raised
U_Binance ==
    /\ upd.pc = "binance"
    /\ \E resp \in BinanceResponses :
         LET n == Len(upd.log) IN
         IF FetchRaises(resp)
         THEN upd' = [upd EXCEPT !.pc = "idle",
                                 !.log[n].binance = "failed",
                                 !.log[n].end = now,
                                 !.log[n].requests = @ + 1,
                                 !.log[n].outcome = "failed"]
         ELSE upd' = [upd EXCEPT !.pc = "bybit",
                                 !.binance_top = FetchTop(resp),
                                 !.log[n].binance = resp.kind,
                                 !.log[n].binance_list = resp.list,
                                 !.log[n].requests = @ + 1]
    /\ UNCHANGED <<SYMBOLS, TOP_SYMBOLS_LAST_UPDATE, now>>
    /\ UNCHANGED <<dbvars, user_states, day, msgs, loopvars, histvars, msg,
                   PRICE_CACHE, calls, sem, shown, cls, enr, signal>>

\* update_symbol_list 311-320: fetch_top_bybit_symbols returned or raised;
\* the merged list replaces SYMBOLS
U_Bybit ==
    /\ upd.pc = "bybit"
    /\ \E resp \in BybitResponses :
         LET n == Len(upd.log) IN
         IF FetchRaises(resp)
         THEN /\ upd' = [upd EXCEPT !.pc = "idle", !.binance_top = <<>>,
                                    !.log[n].bybit = "failed",
                                    !.log[n].end = now,
                                    !.log[n].requests = @ + 1,
                                    !.log[n].outcome = "failed"]
              /\ UNCHANGED <<SYMBOLS, TOP_SYMBOLS_LAST_UPDATE>>
         ELSE /\ SYMBOLS' = UniqueSymbols(upd.binance_top \o FetchTop(resp))
              /\ TOP_SYMBOLS_LAST_UPDATE' = now
              /\ upd' = [upd EXCEPT !.pc = "idle", !.binance_top = <<>>,
                                    !.log[n].bybit = resp.kind,
                                    !.log[n].bybit_list = resp.list,
                                    !.log[n].end = now,
                                    !.log[n].requests = @ + 1,
                                    !.log[n].outcome = "refreshed"]
    /\ UNCHANGED now
    /\ UNCHANGED <<dbvars, user_states, day, msgs, loopvars, histvars, msg,
                   PRICE_CACHE, calls, sem, shown, cls, enr, signal>>

\* time.time() moves on
U_Clock ==
    /\ now + TickStep <= MaxClock
    /\ now' = now + TickStep
    /\ UNCHANGED <<SYMBOLS, TOP_SYMBOLS_LAST_UPDATE, upd>>
    /\ UNCHANGED <<dbvars, user_states, day, msgs, loopvars, histvars, msg,
                   PRICE_CACHE, calls, sem, shown, cls, enr, signal>>

InitUniverse == FreshStore /\ InitProcess /\ cls = NoCls /\ now = StartTime

NextUniverse == U_Call \/ U_Binance \/ U_Bybit \/ U_Clock

SpecUniverse == InitUniverse /\ [][NextUniverse]_vars

\* a step in which update_symbol_list is called
CallStep == Len(upd'.log) = Len(upd.log) + 1

\* a step in which a refresh ends: the call returns after its requests
RefreshEnds == upd.pc # "idle" /\ upd'.pc = "idle"

\* the calls of the log that replaced the universe
Refreshed(log) == {i \in 1..Len(log) : log[i].outcome = "refreshed"}

\* when the last successful refresh replaced the universe
LastRefresh(log) ==
    LET i == CHOOSE j \in Refreshed(log) : \A k \in Refreshed(log) : k <= j IN
    log[i].end

C18_FailedRefreshKeepsUniverse ==
    [][(/\ RefreshEnds
        /\ LET c == upd'.log[Len(upd'.log)] IN
           \/ c.outcome = "failed"
           \/ c.binance = "nolist" \/ c.bybit = "nolist") =>
          SYMBOLS' = SYMBOLS]_vars

\* ------------------------------------------------------------------------
\* bot.py: the classification of one fetched price change (specification
\* SpecClassify).  An identity with flags type_pump and type_dump, whose
\* threshold (percent_change, which both categories fall back to) is
\* positive, has one symbol with the fetched change price_change evaluated
\* by its pump pass and then by its dump pass.  Changes and thresholds are
\* in whole percent.

PriceRange == (0 - MaxChange)..MaxChange
Thresholds == 1..MaxThreshold

\* check_signals 991, 1003: the pump passes, process_exchange(.., True, False, ..)
C_PumpPass ==
    /\ cls.pass = "start"
    /\ cls' = [cls EXCEPT
                 !.pass = "pump",
                 !.pump = cls.type_pump /\
                          should_send_pump(TRUE, cls.price_change, cls.threshold),
                 !.dump = cls.type_pump /\
                          should_send_dump(FALSE, cls.price_change, cls.threshold)]
    /\ UNCHANGED <<dbvars, user_states, day, msgs, SYMBOLS, loopvars, histvars,
                   msg, gwvars, sem, TOP_SYMBOLS_LAST_UPDATE, upd, shown,
                   enr, signal>>

\* check_signals 1020, 1032: the dump passes, process_exchange(.., False, True, ..)
C_DumpPass ==
    /\ cls.pass = "pump"
    /\ cls' = [cls EXCEPT
                 !.pass = "done",
                 !.pump = @ \/ (cls.type_dump /\
                          should_send_pump(FALSE, cls.price_change, cls.threshold)),
                 !.dump = @ \/ (cls.type_dump /\
                          should_send_dump(TRUE, cls.price_change, cls.threshold))]
    /\ UNCHANGED <<dbvars, user_states, day, msgs, SYMBOLS, loopvars, histvars,
                   msg, gwvars, sem, TOP_SYMBOLS_LAST_UPDATE, upd, shown,
                   enr, signal>>

InitClassify ==
    /\ FreshStore /\ InitProcess /\ now = 0
    /\ \E tp, td \in BOOLEAN, p \in PriceRange, t \in Thresholds :
         cls = [type_pump |-> tp, type_dump |-> td, price_change |-> p,
                threshold |-> t, pass |-> "start", pump |-> FALSE,
                dump |-> FALSE]

NextClassify == C_PumpPass \/ C_DumpPass

SpecClassify == InitClassify /\ [][NextClassify]_vars

\* C19: after both passes a Pump signal was produced iff pump is enabled
\* and p >= t, a Dump signal iff dump is enabled and p <= -t, and not both;
\* one evaluation of process_exchange never classifies a change as both,
\* whatever its flags.
C19_Classification ==
    /\ cls.pass = "done" =>
         /\ cls.pump <=> (cls.type_pump /\ cls.price_change >= cls.threshold)
         /\ cls.dump <=> (cls.type_dump /\ cls.price_change <= 0 - cls.threshold)
         /\ ~(cls.pump /\ cls.dump)
    /\ \A pump_on, dump_on \in BOOLEAN :
         ~(/\ should_send_pump(pump_on, cls.price_change, cls.threshold)
           /\ should_send_dump(dump_on, cls.price_change, cls.threshold))

\* a change exactly equal to the threshold classified as Pump
C19_Witness ==
    /\ cls.pass = "done"
    /\ cls.type_pump /\ cls.type_dump
    /\ cls.price_change = cls.threshold
    /\ cls.pump /\ ~cls.dump

\* ------------------------------------------------------------------------
\* check_signals: the quota of a category (specification Spec)

\* the positions of process_exchange at which a candle request, the
\* indicator requests or a delivery is pending
Requesting == {"fetch", "enrich", "send"}

\* C20: while a candle request, an indicator request or a delivery of the
\* loop is pending, the counter of the identity for the category of the
\* pass, in the loop and in the store, is below the quota the pass was
\* given, which is the quota of that category, and the counter of the pass
\* is not below the one the loop carried over from the exchange before.
C20_NoRequestAtQuota ==
    pc \in Requesting =>
       /\ px.signals_sent < px.limit
       /\ px.limit = LocLimit(loc, PassCategory(pass))
       /\ px.signals_sent >= LocCount(loc, PassCategory(pass))
       /\ CountOf(user_settings, loc.user_id, PassCategory(pass)) < px.limit

\* the counter reached the quota on the first exchange with symbols left:
\* the loop is about to break, and the pass of the second exchange is
\* still to come
C20_Witness ==
    /\ pc = "symbol"
    /\ PassExchange(pass) = "Binance"
    /\ px.signals_sent = px.limit
    /\ px.i <= Len(px.symbols)
    /\ LocExchangeOn(loc, "Bybit")

\* ------------------------------------------------------------------------
\* process_exchange: the order of enrichment and classification
\* (specification Spec)

\* C21: the indicator requests of a symbol are pending only when the
\* fetched change of that symbol classifies as an alert of the category of
\* the pass.
C21_EnrichOnlyClassified ==
    pc = "enrich" =>
       ShouldSend(PassCategory(pass), px.data,
                  LocThreshold(loc, PassCategory(pass)))

\* ------------------------------------------------------------------------
\* process_exchange 849-896: the network calls made for one symbol
\* (specification SpecEnrich).  enr.call is the call that is pending,
\* enr.waited the seconds it has been pending, enr.tried the calls made so
\* far, enr.abandoned the calls its own timeout ended; the five fields hold
\* "value" or "none" (None) once resolved.

Indicators == {"rsi", "funding", "long_short", "open_interest", "orderbook"}

\* the provider process_exchange asks first
Primary(field) ==
    CASE field = "rsi" -> "get_rsi"
      [] field = "funding" -> "get_funding_rate"
      [] field = "long_short" -> "get_long_short_ratio"
      [] field = "open_interest" -> "get_open_interest"
      [] field = "orderbook" -> "get_orderbook_ratio"

NoProvider == "none"

\* the provider asked when the first one gave None
Fallback(field) ==
    CASE field = "rsi" -> "get_rsi_from_exchange"
      [] field = "funding" -> "get_funding_rate_free"
      [] field = "long_short" -> "get_long_short_ratio_free"
      [] OTHER -> NoProvider

\* the calls that pass a timeout to session.get, and that timeout
TimedCalls ==
    {"get_rsi_from_exchange", "get_funding_rate_free",
     "get_long_short_ratio_free"}
OwnTimeout(call) == FreeTimeout

NetworkCalls ==
    {"get_klines"} \cup {Primary(f) : f \in Indicators} \cup TimedCalls

\* what a call can answer: a value, None, or an exception
Answers == {"value", "null", "fail"}

\* the call becomes pending
Pending(e, call) ==
    [e EXCEPT !.call = call, !.waited = 0, !.tried = @ \cup {call}]

\* process_exchange 876-896: the open interest and the orderbook ratio share
\* one try; get_open_interest_bybit is called with (symbol, timeframe)
OpenInterestStep(e) ==
    IF e.exchange = "Binance"
    THEN Pending(e, "get_open_interest")
    ELSE [e EXCEPT !.call = "format", !.waited = 0,
                   !.open_interest = "none", !.orderbook = "none"]

\* the state of process_exchange after the pending call gave answer a
AfterAnswer(e, a) ==
    CASE e.call = "get_klines" ->
           IF a = "value" THEN Pending(e, "get_rsi")
           ELSE [e EXCEPT !.call = "skipped", !.waited = 0]
      [] e.call = "get_rsi" ->
           IF a = "value"
           THEN Pending([e EXCEPT !.rsi = "value"], "get_funding_rate")
           ELSE Pending(e, "get_rsi_from_exchange")
      [] e.call = "get_rsi_from_exchange" ->
           Pending([e EXCEPT !.rsi = IF a = "value" THEN "value" ELSE "none"],
                   "get_funding_rate")
      [] e.call = "get_funding_rate" ->
           IF a = "value"
           THEN Pending([e EXCEPT !.funding = "value"], "get_long_short_ratio")
           ELSE Pending(e, "get_funding_rate_free")
      [] e.call = "get_funding_rate_free" ->
           Pending([e EXCEPT !.funding = IF a = "value" THEN "value"
                                                        ELSE "none"],
                   "get_long_short_ratio")
      [] e.call = "get_long_short_ratio" ->
           IF a = "value"
           THEN OpenInterestStep([e EXCEPT !.long_short = "value"])
           ELSE Pending(e, "get_long_short_ratio_free")
      [] e.call = "get_long_short_ratio_free" ->
           OpenInterestStep([e EXCEPT !.long_short =
                                 IF a = "value" THEN "value" ELSE "none"])
      [] e.call = "get_open_interest" ->
           IF a = "fail"
           THEN [e EXCEPT !.call = "format", !.waited = 0,
                          !.open_interest = "none", !.orderbook = "none"]
           ELSE Pending([e EXCEPT !.open_interest = "value"],
                        "get_orderbook_ratio")
      [] e.call = "get_orderbook_ratio" ->
           IF a = "fail"
           THEN [e EXCEPT !.call = "format", !.waited = 0,
                          !.open_interest = "none", !.orderbook = "none"]
           ELSE [e EXCEPT !.call = "format", !.waited = 0,
                          !.orderbook = "value"]

\* process_exchange 845-851: the next symbol, on one of the exchanges
E_Symbol ==
    /\ enr.call = "idle"
    /\ \E ex \in Exchanges :
         enr' = Pending([NoEnr EXCEPT !.exchange = ex], "get_klines")
    /\ UNCHANGED <<dbvars, user_states, day, msgs, SYMBOLS, loopvars, histvars,
                   msg, gwvars, sem, TOP_SYMBOLS_LAST_UPDATE, upd, shown, cls,
                   signal>>

\* the pending call answers, or its connection breaks
E_Answer ==
    /\ enr.call \in NetworkCalls
    /\ \E a \in Answers : enr' = AfterAnswer(enr, a)
    /\ UNCHANGED <<dbvars, user_states, day, msgs, SYMBOLS, loopvars, histvars,
                   msg, gwvars, sem, TOP_SYMBOLS_LAST_UPDATE, upd, shown, cls,
                   signal>>

\* the pending call has not answered yet
E_Wait ==
    /\ enr.call \in NetworkCalls
    /\ enr.waited + WaitStep <= MaxWait
    /\ enr.call \in TimedCalls => enr.waited < OwnTimeout(enr.call)
    /\ enr' = [enr EXCEPT !.waited = @ + WaitStep]
    /\ UNCHANGED <<dbvars, user_states, day, msgs, SYMBOLS, loopvars, histvars,
                   msg, gwvars, sem, TOP_SYMBOLS_LAST_UPDATE, upd, shown, cls,
                   signal>>

\* the timeout the call passed to session.get ends it: asyncio.TimeoutError
E_Timeout ==
    /\ enr.call \in TimedCalls
    /\ enr.waited >= OwnTimeout(enr.call)
    /\ enr' = AfterAnswer([enr EXCEPT !.abandoned = @ \cup {enr.call}], "fail")
    /\ UNCHANGED <<dbvars, user_states, day, msgs, SYMBOLS, loopvars, histvars,
                   msg, gwvars, sem, TOP_SYMBOLS_LAST_UPDATE, upd, shown, cls,
                   signal>>

InitEnrich == FreshStore /\ InitProcess /\ cls = NoCls /\ now = 0

NextEnrich == E_Symbol \/ E_Answer \/ E_Wait \/ E_Timeout

SpecEnrich == InitEnrich /\ [][NextEnrich]_vars

\* C22: when the fields of a symbol are handed to format_signal, a field
\* that is omitted had its first provider asked and then its fallback
\* provider asked, and a field whose provider gave a value is not omitted.
C22_FallbackBeforeOmitted ==
    enr.call = "format" =>
       \A f \in Indicators :
          enr[f] = "none" =>
             /\ Primary(f) \in enr.tried
             /\ Fallback(f) \in enr.tried

\* C23: no network call of the evaluation is pending for longer than the
\* longest timeout the code sets.
C23_NoCallOutlastsTimeout ==
    enr.call \in NetworkCalls => enr.waited <= TickerTimeout

\* ------------------------------------------------------------------------
\* The life of a user_settings record (specification SpecKeys)

\* C24: an activate_key call leaves every record that exists as it is and
\* adds at most one record, with the default values, for the caller; in the
\* entitlement handlers a record disappears only in a Logout, and only the
\* records of the identity that logs out.
C24_SettingsRecordLife ==
    [][/\ KeyStep =>
            /\ Len(user_settings') >= Len(user_settings)
            /\ Len(user_settings') <= Len(user_settings) + 1
            /\ \A i \in 1..Len(user_settings) :
                  user_settings'[i] = user_settings[i]
            /\ \A i \in (Len(user_settings) + 1)..Len(user_settings') :
                  /\ msg'.ret
                  /\ \E a \in {0, 1} :
                        user_settings'[i] =
                            NewSettingsRow(msg'.username, msg'.user_id, a)
       /\ (msgs' = msgs + 1 /\ msg'.key = "none") =>
            \/ user_settings' = user_settings
            \/ \E u \in Users :
                  /\ SettingsOf(user_settings, u) # <<>>
                  /\ user_settings' =
                        SelectSeq(user_settings, LAMBDA r : r.user_id # u)
       /\ day' # day => user_settings' = user_settings]_vars

\* ------------------------------------------------------------------------
\* get_price_change: how a call fails (specification SpecGateway)

\* C25: no call of get_price_change ends with a division error: a call
\* that fails ends with the error of the request, with the error of a
\* response that holds no two candles, or with InvalidCandle, and a failed
\* call has written no cache entry.
C25_ZeroOpenIsInvalidCandle ==
    \A i \in 1..Len(calls) :
       calls[i].status = "failed" =>
          /\ calls[i].error \in {"ClientError", "IndexError", "InvalidCandle"}
          /\ \/ calls[i].key \notin DOMAIN PRICE_CACHE[calls[i].exchange]
             \/ PRICE_CACHE[calls[i].exchange][calls[i].key].timestamp
                   # calls[i].start

\* ------------------------------------------------------------------------
\* process_exchange: a failed candle fetch (specification Spec)

\* the step in which the pending candle fetch raises
FetchFails == pc = "fetch" /\ pc' = "symbol"

\* C26: when the candle fetch of a symbol raises, nothing is sent for that
\* symbol, the counter of the pass and the stored counters stay as they
\* are, and the loop is at its head with the next symbol of the universe.
C26_FetchFailureSkipsSymbol ==
    [][FetchFails =>
          /\ px'.i = px.i + 1
          /\ px'.symbols = px.symbols
          /\ px'.signals_sent = px.signals_sent
          /\ pass' = pass /\ loc' = loc
          /\ sent' = sent
          /\ user_settings' = user_settings]_vars

\* the fetch of the first symbol failed and the second symbol is fetched
C26_Witness ==
    /\ pc = "symbol"
    /\ last.outcome = "fetch_failed"
    /\ px.i = 2 /\ px.i <= Len(px.symbols)
    /\ px.signals_sent < px.limit

\* ------------------------------------------------------------------------
\* update_symbol_list: the universe after a refresh (specification
\* SpecUniverse)

\* the USDT tickers of a ticker list, in the order of the list
UsdtOf(list) == SelectSeq(list, LAMBDA x : x.symbol \in UsdtSymbols)

\* the rank of the ticker at position j by volume, the largest first and
\* the earlier one first among equals
RankOf(pairs, j) ==
    1 + Cardinality({k \in 1..Len(pairs) :
                        \/ pairs[k].volume > pairs[j].volume
                        \/ pairs[k].volume = pairs[j].volume /\ k < j})

\* the symbols of the 30 best ranked USDT tickers of a list, in ranked order
\* (the tickers and their ranks are bound once, as elements of a set)
RankedTop(list) ==
    CHOOSE top \in
        {[r \in 1..(IF Len(pairs) < 30 THEN Len(pairs) ELSE 30) |->
             pairs[CHOOSE j \in 1..Len(pairs) : rank[j] = r].symbol] :
           <<pairs, rank>> \in
             {<<p, [j \in 1..Len(p) |-> RankOf(p, j)]>> : p \in {UsdtOf(list)}}} :
        TRUE

\* the first list followed by the symbols of the second that are not in it
MergedTop(first, second) ==
    LET seen == {first[i] : i \in 1..Len(first)} IN
    first \o SelectSeq(second, LAMBDA y : y \notin seen)

\* no symbol twice
Distinct(list) == Cardinality({list[i] : i \in 1..Len(list)}) = Len(list)

\* the call of the log that replaced the universe last
LastRefreshed(log) ==
    log[CHOOSE j \in Refreshed(log) : \A k \in Refreshed(log) : k <= j]

\* C27: SYMBOLS changes only when a refresh succeeds, and after a refresh
\* it is the ranked top 30 of Binance followed by the symbols of the ranked
\* top 30 of Bybit that are not among them; it holds only USDT symbols, no
\* symbol twice and at most 60 symbols.
C27_UniverseIsMergedTop ==
    [][/\ SYMBOLS' # SYMBOLS =>
            RefreshEnds /\ upd'.log[Len(upd'.log)].outcome = "refreshed"
       /\ (RefreshEnds /\ upd'.log[Len(upd'.log)].outcome = "refreshed") =>
            LET c == upd'.log[Len(upd'.log)] IN
            /\ \E first \in {RankedTop(c.binance_list)},
                  second \in {RankedTop(c.bybit_list)} :
                  SYMBOLS' = MergedTop(first, second)
            /\ \A i \in 1..Len(SYMBOLS') : SYMBOLS'[i] \in UsdtSymbols
            /\ Distinct(SYMBOLS')
            /\ Len(SYMBOLS') <= 60]_vars

\* a refresh in which Binance listed more than 30 USDT tickers and Bybit
\* listed one symbol of the Binance top 30 and one that Binance ranked
\* below it
C27_Witness ==
    /\ Refreshed(upd.log) # {}
    /\ Len(UsdtOf(LastRefreshed(upd.log).binance_list)) > 30
    /\ Len(SYMBOLS) > 30
    /\ \E i \in 1..Len(LastRefreshed(upd.log).bybit_list) :
          \E j \in 1..30 :
             SYMBOLS[j] = LastRefreshed(upd.log).bybit_list[i].symbol
    /\ \E i \in 31..Len(SYMBOLS) : SYMBOLS[i] = GenSymbol(1)

\* ------------------------------------------------------------------------
\* The window of an entitlement (specification SpecKeys)

\* C28: once a key has been activated its expires_at is never moved later,
\* and a key that is inactive after an activation (expired, or released by
\* Logout) is not made active again.
C28_EntitlementWindowFixed ==
    [][\A k \in DOMAIN access_keys :
          access_keys[k].activated_at # NullDate =>
             /\ access_keys'[k].expires_at <= access_keys[k].expires_at
             /\ access_keys[k].is_active = 0 =>
                   access_keys'[k].is_active = 0]_vars

\* ------------------------------------------------------------------------
\* check_subscription: the keys it marks inactive (specification SpecKeys)

\* a step in which check_subscription wrote access_keys: no activate_key
\* call, and no Logout, which deletes the settings record with it
ExpiryStep ==
    /\ access_keys' # access_keys
    /\ user_settings' = user_settings
    /\ msgs' = msgs + 1 /\ msg'.key = "none"

\* C29: check_subscription marks inactive only keys that have expired.
C29_OnlyExpiredKeyMarked ==
    [][ExpiryStep =>
          \A k \in DOMAIN access_keys :
             (access_keys[k].is_active = 1 /\ access_keys'[k].is_active = 0)
                => day >= access_keys[k].expires_at]_vars

\* ------------------------------------------------------------------------
\* Logout during an evaluation (specification Spec)

\* the step in which process_exchange starts a delivery
DispatchStep == pc = "enrich" /\ pc' = "send"

\* C30: no delivery is started for an identity that has no settings record
\* (Logout deleted it and no key was activated since), and the send that
\* returns for such an identity writes no counter.
C30_NoDispatchAfterLogout ==
    [][/\ DispatchStep => get_user_settings(loc.user_id) # <<>>
       /\ (SendStep /\ get_user_settings(loc.user_id) = <<>>) =>
             user_settings' = user_settings]_vars

\* ------------------------------------------------------------------------
\* The persisted counters and the deliveries (specification Spec)

\* C31: between two resets the persisted counter of each identity that has
\* a settings record and of each category never decreases and equals the
\* number of deliveries of that category made to the identity today; a
\* delivery of one category leaves the counter of the other unchanged.
C31_CounterCountsDeliveries ==
    [][\A u \in Users, cat \in Categories :
          /\ (day' = day /\ get_user_settings(u) # <<>>
                         /\ SettingsOf(user_settings', u) # <<>>) =>
                CountOf(user_settings', u, cat) >= CountOf(user_settings, u, cat)
          /\ SettingsOf(user_settings', u) # <<>> =>
                CountOf(user_settings', u, cat) = sent'[u][cat]
          /\ (Delivered /\ cat # PassCategory(pass)) =>
                CountOf(user_settings', u, cat) = CountOf(user_settings, u, cat)]_vars

\* ------------------------------------------------------------------------
\* One quota for both exchanges (specification Spec)

\* the count of a category the evaluation of the current identity holds:
\* signals_sent inside a process_exchange call of that category, the local
\* of check_signals outside
RunningCount(l, p, x, cat) ==
    IF x # NoPx /\ PassCategory(p) = cat THEN x.signals_sent
                                         ELSE LocCount(l, cat)

\* a step of the evaluation of one identity, from after the read of its
\* settings to the end of its fourth call
EvaluationStep ==
    /\ loc # NoLoc
    /\ loc' # NoLoc
    /\ pc' \notin Crashed

\* C32: within the evaluation of an identity the two exchanges share the
\* count of a category: the running count grows by exactly the deliveries
\* made (so the Bybit call starts from the count the Binance call
\* returned), it never exceeds the quota read at the start, and no call is
\* started for a category whose count has reached the quota.
C32_QuotaSharedByExchanges ==
    [][/\ EvaluationStep =>
            \A cat \in Categories :
               /\ RunningCount(loc', pass', px', cat) - RunningCount(loc, pass, px, cat)
                     = sent'[loc.user_id][cat] - sent[loc.user_id][cat]
               /\ RunningCount(loc', pass', px', cat) <= LocLimit(loc, cat)
               /\ LocLimit(loc', cat) = LocLimit(loc, cat)
       /\ (pc = "pass" /\ pc' = "symbol") =>
            /\ px'.signals_sent = LocCount(loc, PassCategory(pass))
            /\ px'.signals_sent < px'.limit]_vars

\* C32 witness: the Binance pump call made the delivery that reached the
\* quota and check_signals stands before the Bybit pump call, which it skips
C32_Witness ==
    /\ pc = "pass"
    /\ pass = 2
    /\ loc.bybit_on
    /\ LocCount(loc, "pump") = LocLimit(loc, "pump")
    /\ sent[loc.user_id]["pump"] = LocLimit(loc, "pump")

\* ------------------------------------------------------------------------
\* A failed get_price_change and the cache (specification SpecGateway)

\* the step in which the pending get_price_change call raises
CallFails ==
    /\ Waiting
    /\ Len(calls') = Len(calls)
    /\ calls'[Len(calls)].status = "failed"

\* C33: a get_price_change call that fails leaves PRICE_CACHE as it was
\* (no entry is created, an expired entry keeps data and timestamp), and
\* the next call for the same key on that gateway makes a candle request.
C33_FailureLeavesCache ==
    [][/\ CallFails => PRICE_CACHE' = PRICE_CACHE
       /\ \A i, j \in 1..Len(calls') :
            (/\ i < j
             /\ SameKey(calls'[i], calls'[j])
             /\ calls'[i].status = "failed"
             /\ \A k \in (i+1)..(j-1) : ~SameKey(calls'[i], calls'[k]))
               => calls'[j].requested]_vars

\* C33 witness: a call failed while an expired entry was in the cache; the
\* entry still holds the result and the time of the call that filled it,
\* and the next call for the key has made its request
C33_Witness ==
    \E i, j, k \in 1..Len(calls) :
        /\ i < j /\ j < k
        /\ SameKey(calls[i], calls[j]) /\ SameKey(calls[i], calls[k])
        /\ calls[i].status = "ok"
        /\ calls[j].status = "failed"
        /\ calls[j].seen = calls[i].start
        /\ calls[k].status = "waiting"
        /\ calls[k].requested
        /\ PRICE_CACHE[calls[i].exchange][calls[i].key] =
               [data |-> calls[i].result, timestamp |-> calls[i].start]

\* ------------------------------------------------------------------------
\* The throttle after a failed refresh (specification SpecUniverse)

\* did this call of update_symbol_list end in a failed refresh: a ticker
\* request raised, or an answer carried no ticker list
FailedRefresh(c) ==
    \/ c.outcome = "failed"
    \/ c.binance = "nolist"
    \/ c.bybit = "nolist"

\* C34: a failed refresh leaves the last-update timestamp as it was, and
\* the call that follows a failed refresh attempts the refresh again; only
\* a successful refresh starts the throttle window.
C34_FailedRefreshIsRetried ==
    [][/\ (RefreshEnds /\ FailedRefresh(upd'.log[Len(upd'.log)])) =>
            TOP_SYMBOLS_LAST_UPDATE' = TOP_SYMBOLS_LAST_UPDATE
       /\ (CallStep /\ upd.log # <<>> /\ FailedRefresh(upd.log[Len(upd.log)])) =>
            upd'.log[Len(upd'.log)].outcome = "running"]_vars

\* ------------------------------------------------------------------------
\* The ON/OFF tokens (specification SpecMenu)

\* the text t of identity u was handled by handle_menu
TokenStep(u, t) == MenuStep /\ msg'.user_id = u /\ msg'.key = t

\* the settings table with the flag of the token flipped between 0 and 1
\* in the record of the identity and nothing else changed
Flipped(table, u, field) ==
    update_user_setting(table, u, field, 1 - SettingsOf(table, u)[1][field])

\* C35: an ON/OFF token of an entitled identity flips its own flag between
\* 0 and 1 and leaves every other setting, the keys and the menu state as
\* they were; for an identity without a settings record it changes no
\* persisted state.
C35_TokenFlipsOwnFlag ==
    [][\A u \in Users, t \in DOMAIN ToggleField :
          TokenStep(u, t) =>
             /\ user_states' = user_states
             /\ access_keys' = access_keys
             /\ SettingsOf(user_settings, u) = <<>> =>
                   user_settings' = user_settings
             /\ (SettingsOf(user_settings, u) # <<>> /\ check_subscription(u).ret) =>
                   /\ SettingsOf(user_settings, u)[1][ToggleField[t]] \in {0, 1}
                   /\ user_settings' = Flipped(user_settings, u, ToggleField[t])]_vars

\* ------------------------------------------------------------------------
\* The field a value prompt writes (specification SpecMenu)

\* C36: a value accepted in a prompt that was entered from the pump or the
\* dump menu is written to the column of that category and nothing else
\* changes in the settings; a value sent in a prompt entered from any other
\* menu writes nothing.
C36_ValueWrittenToOwnCategory ==
    [][\A u \in Users :
          (/\ TextStep(u)
           /\ user_states[u].setting # "none"
           /\ AcceptsValue(user_states[u].setting, msg'.key)
           /\ get_user_settings(u) # <<>>) =>
             LET menu == user_states[u].menu
                 field == PromptField(user_states[u].setting, menu) IN
             IF menu \in {"pump", "dump"}
             THEN /\ field = user_states[u].setting \o "_" \o menu
                  /\ ColumnExists(field)
                  /\ user_settings' =
                        update_user_setting(user_settings, u, field, msg'.key)
             ELSE user_settings' = user_settings]_vars

\* ------------------------------------------------------------------------
\* A failed key submission (specification SpecKeys)

\* C37: an activate_key call that returns False for an identity in
\* awaiting_key leaves the identity in awaiting_key and every access_keys
\* and user_settings row as it was; an identity leaves awaiting_key only in
\* the step of a successful submission of its own.
C37_FailedSubmissionStays ==
    [][/\ (/\ KeyStep
           /\ user_states[msg'.user_id].awaiting_key
           /\ ~msg'.ret) =>
             /\ user_states' = user_states
             /\ access_keys' = access_keys
             /\ user_settings' = user_settings
       /\ \A u \in Users :
            (user_states[u].awaiting_key /\ ~user_states'[u].awaiting_key) =>
               /\ KeyStep
               /\ msg'.user_id = u
               /\ msg'.ret]_vars

\* C37 witness: an identity in awaiting_key has submitted a key that is
\* active for another user and was refused
C37_Witness ==
    /\ msg.user_id \in Users
    /\ msg.key \in DOMAIN access_keys
    /\ ~msg.ret
    /\ access_keys[msg.key].is_active = 1
    /\ access_keys[msg.key].user_id \notin {NullId, msg.user_id}
    /\ user_states[msg.user_id].awaiting_key

\* ------------------------------------------------------------------------
\* The admin identity (specification SpecKeys)

\* the identity holds a settings record made by the admin key
HoldsAdmin(table, u) ==
    \E i \in 1..Len(table) : table[i].user_id = u /\ table[i].is_admin = 1

\* the step in which the Logout of identity u is handled
LogoutStep(u) ==
    /\ msgs' = msgs + 1
    /\ msg' = NoMsg
    /\ SettingsOf(user_settings, u) # <<>>
    /\ SettingsOf(user_settings', u) = <<>>

\* C38: an identity that activated the admin key keeps its admin record
\* until it logs out and check_subscription is true for it in every state
\* in between, whatever the keys' expiry; its Logout deletes the record and
\* deactivates no access key.
C38_AdminEntitledUntilLogout ==
    [][\A u \in Users :
          /\ (KeyStep /\ msg'.user_id = u /\ msg'.key = ADMIN_ACCESS_KEY) =>
                HoldsAdmin(user_settings', u)
          /\ (HoldsAdmin(user_settings, u) /\ ~LogoutStep(u)) =>
                HoldsAdmin(user_settings', u)
          /\ HoldsAdmin(user_settings', u) => (check_subscription(u).ret)'
          /\ (HoldsAdmin(user_settings, u) /\ LogoutStep(u)) =>
                access_keys' = access_keys]_vars

\* ------------------------------------------------------------------------
\* formatters.py: format_signal (specification SpecFormat).  A line of the
\* message is the tuple of its label and the values printed in it.

FormatSymbols == {"BTCUSDT", "ETHUSDC"}
\* an optional float: None, 0.0 or another number
Floats == {<<>>, <<0>>, <<7>>}
\* an optional (long_pct, short_pct)
Ratios == {<<>>, <<0, 0>>, <<60, 40>>}

\* symbol[:-4] of the symbols in FormatSymbols
WithoutQuote == [s \in FormatSymbols |->
                   CASE s = "BTCUSDT" -> "BTC" [] s = "ETHUSDC" -> "ETH"]

\* format_signal 66-67: "USDT" is stripped from the symbol for the link
base_symbol(symbol) ==
    IF EndsWithUSDT(symbol) THEN WithoutQuote[symbol] ELSE symbol

\* OptionalLine that tests the value for truth, so that 0.0 counts as absent
OptionalLine_Truthy(label, value) ==
    IF value # <<>> /\ value[1] # 0 THEN <<<<label>> \o value>> ELSE <<>>

\* format_signal 83-93: "if value is not None: lines.append(...)"
OptionalLine(label, value) ==
    IF value # <<>> THEN <<<<label>> \o value>> ELSE <<>>

\* format_signal 62-105: the lines joined into the message
format_signal(symbol, is_pump, exchange, price_now, price_change, volume_now, volume_change, rsi, funding, long_short_ratio, open_interest, orderbook_ratio) ==
    <<<<IF is_pump THEN "PUMP" ELSE "DUMP", symbol, base_symbol(symbol)>>,
      <<"Exchange", exchange>>,
      <<"Price", price_now>>,
      <<"Change", price_change>>,
      <<"Volume", volume_now, volume_change>>>>
    \o OptionalLine("RSI", rsi)
    \o OptionalLine("Funding", funding)
    \o OptionalLine("Long/Short ratio", long_short_ratio)
    \o OptionalLine("Open interest", open_interest)
    \o OptionalLine("Orderbook ratio", orderbook_ratio)
    \o <<<<"Register on Binance">>, <<"Register on Bybit">>>>

\* process_exchange 898-900: a symbol is classified; the arguments of the
\* format_signal call are what the providers gave
F_Classified ==
    /\ signal.symbol = "none"
    /\ \E symbol \in FormatSymbols, is_pump \in BOOLEAN, ex \in Exchanges,
          rsi \in Floats, funding \in Floats, ls \in Ratios,
          oi \in Floats, ob \in Floats :
         signal' = [symbol |-> symbol, is_pump |-> is_pump, exchange |-> ex,
                    rsi |-> rsi, funding |-> funding,
                    long_short_ratio |-> ls, open_interest |-> oi,
                    orderbook_ratio |-> ob, lines |-> <<>>]
    /\ UNCHANGED <<dbvars, user_states, day, msgs, SYMBOLS, loopvars, histvars,
                   msg, gwvars, sem, TOP_SYMBOLS_LAST_UPDATE, upd, shown, cls,
                   enr>>

\* process_exchange 901-914: message_text = format_signal(...)
F_Format ==
    /\ signal.symbol # "none"
    /\ signal.lines = <<>>
    /\ signal' = [signal EXCEPT !.lines =
          format_signal(signal.symbol, signal.is_pump, signal.exchange,
                        100, IF signal.is_pump THEN 2 ELSE -2,
                        10, 50, signal.rsi, signal.funding,
                        signal.long_short_ratio, signal.open_interest,
                        signal.orderbook_ratio)]
    /\ UNCHANGED <<dbvars, user_states, day, msgs, SYMBOLS, loopvars, histvars,
                   msg, gwvars, sem, TOP_SYMBOLS_LAST_UPDATE, upd, shown, cls,
                   enr>>

InitFormat == FreshStore /\ InitProcess /\ cls = NoCls /\ now = 0

NextFormat == F_Classified \/ F_Format

SpecFormat == InitFormat /\ [][NextFormat]_vars

\* the labels of the enrichment lines, in the order of the message
EnrichmentLabels ==
    <<"RSI", "Funding", "Long/Short ratio", "Open interest", "Orderbook ratio">>
\* the argument printed under a label
Argument(s, label) ==
    CASE label = "RSI" -> s.rsi
      [] label = "Funding" -> s.funding
      [] label = "Long/Short ratio" -> s.long_short_ratio
      [] label = "Open interest" -> s.open_interest
      [] label = "Orderbook ratio" -> s.orderbook_ratio

\* C39: the message starts with the PUMP glyph iff is_pump and the DUMP
\* glyph otherwise, with the symbol, then has the exchange, price, change
\* and volume lines, then one line for each enrichment argument that is not
\* None, in the order RSI, funding, long/short, open interest, orderbook
\* ratio, and none for an argument that is None, and ends with the two
\* fixed links.
C39_FormatSignalLines ==
    signal.lines # <<>> =>
       LET lines == signal.lines
           n == Len(lines)
           given == SelectSeq(EnrichmentLabels,
                              LAMBDA l : Argument(signal, l) # <<>>) IN
       /\ lines[1][1] = (IF signal.is_pump THEN "PUMP" ELSE "DUMP")
       /\ lines[1][2] = signal.symbol
       /\ lines[2] = <<"Exchange", signal.exchange>>
       /\ lines[3][1] = "Price"
       /\ lines[4][1] = "Change"
       /\ lines[5][1] = "Volume"
       /\ n = 7 + Len(given)
       /\ \A i \in 1..Len(given) :
             lines[5 + i] = <<given[i]>> \o Argument(signal, given[i])
       /\ lines[n - 1] = <<"Register on Binance">>
       /\ lines[n] = <<"Register on Bybit">>

\* C39 witness: a dump message with RSI 0.0, no funding, a long/short
\* ratio, no open interest and an orderbook ratio
C39_Witness ==
    /\ signal.lines # <<>>
    /\ ~signal.is_pump
    /\ signal.rsi = <<0>>
    /\ signal.funding = <<>>
    /\ signal.long_short_ratio = <<60, 40>>
    /\ signal.open_interest = <<>>
    /\ signal.orderbook_ratio = <<7>>
    /\ Len(signal.lines) = 10

====
